---- MODULE Spec2Model ----
(***************************************************************************)
(* RBAC layer of express-server: the role store (RoleRepository over the   *)
(* roles collection), the decision functions of AuthService, and the       *)
(* request gate (isAuthenticated and the require* middleware factories).   *)
(***************************************************************************)
EXTENDS Integers, Sequences, FiniteSets, TLC

VARIABLES roleStore, lastCall, users, nextId, env, req,
          authentication, clock, issued, pending, lastOp

vars == <<roleStore, lastCall, users, nextId, env, req,
          authentication, clock, issued, pending, lastOp>>

\* authentication is the authentication sub-document of each user (salt,
\* password hash, stored refresh token); clock counts seconds; issued is the
\* history of the tokens signed so far; pending holds the service calls that
\* are between two awaits; lastOp is the outcome of the service call that
\* has just returned
sessionVars == <<authentication, clock, issued, pending, lastOp>>

(***************************************************************************)
(* Bounds of the model.                                                    *)
(***************************************************************************)
MaxListLen == 2
MaxUsers == 2
MaxCallers == 2
MaxClock == 1

(***************************************************************************)
(* Enumerations of types/rbac.types.                                       *)
(***************************************************************************)
Role == {"super_admin", "admin", "manager", "user", "guest"}

Permission ==
  {"user:create", "user:read", "user:update", "user:delete", "user:list",
   "role:create", "role:read", "role:update", "role:delete", "role:list",
   "role:assign",
   "permission:create", "permission:read", "permission:update",
   "permission:delete", "permission:list", "permission:assign",
   "self:read", "self:update", "self:delete"}

MESSAGE_NO_ROLES_ASSIGNED == "No roles assigned to user"
MESSAGE_INSUFFICIENT_PERMISSIONS == "Insufficient permissions to perform this action"
MESSAGE_ROLE_NOT_FOUND == "Required role not found"
MESSAGE_PERMISSION_NOT_FOUND == "Required permission not found"
MESSAGE_ROLE_ALREADY_EXISTS == "Role already exists"
MESSAGE_UNAUTHORIZED == "Unauthorized access"
MESSAGE_INVALID_TOKEN == "Invalid or expired token"
MESSAGE_SERVER_CONFIG_ERROR == "Server configuration error"
MESSAGE_AUTHENTICATION_FAILED == "Authentication failed"

(***************************************************************************)
(* Helpers on JavaScript arrays (sequences) and optional values.  An       *)
(* optional value is a sequence of length at most one: <<>> is undefined.  *)
(***************************************************************************)
Undefined == <<>>
Some(x) == <<x>>
IsDefined(o) == Len(o) > 0
ValueOf(o) == o[1]

Elems(s) == {s[i] : i \in 1..Len(s)}
Includes(s, x) == \E i \in 1..Len(s) : s[i] = x
\* required.some(x => held.includes(x)), required.every(x => held.includes(x))
SomeIncluded(required, held) ==
  \E i \in 1..Len(required) : Includes(held, required[i])
EveryIncluded(required, held) ==
  \A i \in 1..Len(required) : Includes(held, required[i])

SeqsUpTo(S, n) == UNION {[1..k -> S] : k \in 0..n}

\* new Set(); forEach(add); Array.from(set): insertion order, first occurrence kept
RECURSIVE SetAddAll(_, _)
SetAddAll(acc, s) ==
  IF s = <<>> THEN acc
  ELSE SetAddAll(IF Includes(acc, Head(s)) THEN acc ELSE Append(acc, Head(s)),
                 Tail(s))

(***************************************************************************)
(* Role store: the roles collection, documents in insertion order.  The    *)
(* unique index on name admits at most one document per name.              *)
(***************************************************************************)
RoleDoc(name, permissions, isActive) ==
  [name |-> name, permissions |-> permissions, isActive |-> isActive]

HasDoc(store, name) == \E i \in 1..Len(store) : store[i].name = name

DocIndex(store, name) == CHOOSE i \in 1..Len(store) : store[i].name = name

\* RoleModel.findOne({ name, isActive: true })
FindByName(store, name) ==
  IF \E i \in 1..Len(store) : store[i].name = name /\ store[i].isActive
  THEN Some(store[DocIndex(store, name)])
  ELSE Undefined

RECURSIVE FindByNamesAnyState(_, _)
FindByNamesAnyState(store, names) ==
  IF store = <<>> THEN <<>>
  ELSE IF Includes(names, Head(store).name)
       THEN <<Head(store)>> \o FindByNamesAnyState(Tail(store), names)
       ELSE FindByNamesAnyState(Tail(store), names)

\* RoleModel.find({ name: { $in: names }, isActive: true })
RECURSIVE FindByNames(_, _)
FindByNames(store, names) ==
  IF store = <<>> THEN <<>>
  ELSE IF Includes(names, Head(store).name) /\ Head(store).isActive
       THEN <<Head(store)>> \o FindByNames(Tail(store), names)
       ELSE FindByNames(Tail(store), names)

RECURSIVE CollectPermissions(_, _)
CollectPermissions(acc, docs) ==
  IF docs = <<>> THEN acc
  ELSE CollectPermissions(SetAddAll(acc, Head(docs).permissions), Tail(docs))

GetPermissionsForRolesFirstOnly(store, roles) ==
  LET roleDocuments == FindByNames(store, roles)
  IN IF roleDocuments = <<>> THEN <<>>
     ELSE SetAddAll(<<>>, Head(roleDocuments).permissions)

\* RoleRepository.getPermissionsForRoles
GetPermissionsForRoles(store, roles) ==
  LET roleDocuments == FindByNames(store, roles)
  IN CollectPermissions(<<>>, roleDocuments)


(***************************************************************************)
(* RoleRepository writes.  Each is one findOneAndUpdate({ name }) on the   *)
(* collection: the filter names the document only, not its isActive flag.  *)
(***************************************************************************)
\* $addToSet: { permissions: { $each: permissions } }
AddToSet(current, permissions) == SetAddAll(current, permissions)

\* $pull: { permissions: { $in: permissions } }
RECURSIVE Pull(_, _)
Pull(current, permissions) ==
  IF current = <<>> THEN <<>>
  ELSE IF Includes(permissions, Head(current))
       THEN Pull(Tail(current), permissions)
       ELSE <<Head(current)>> \o Pull(Tail(current), permissions)

RepoCreate(store, name, permissions) ==
  Append(store, RoleDoc(name, permissions, TRUE))

RepoUpdatePermissions(store, roleName, permissions) ==
  [store EXCEPT ![DocIndex(store, roleName)].permissions = permissions]

RepoAddPermissions(store, roleName, permissions) ==
  [store EXCEPT ![DocIndex(store, roleName)].permissions =
                    AddToSet(@, permissions)]

RepoRemovePermissions(store, roleName, permissions) ==
  [store EXCEPT ![DocIndex(store, roleName)].permissions =
                    Pull(@, permissions)]

RepoDelete(store, roleName) ==
  [store EXCEPT ![DocIndex(store, roleName)].isActive = FALSE]

(***************************************************************************)
(* AuthService decision functions.  A result is the IPermissionCheckResult *)
(* the promise resolves to, or the rejection of the promise (threw) when   *)
(* the awaited repository call rejects (dbOk = FALSE).                     *)
(***************************************************************************)
NoReason == ""
Granted == [threw |-> FALSE, granted |-> TRUE, reason |-> NoReason]
Denied(reason) == [threw |-> FALSE, granted |-> FALSE, reason |-> reason]
Thrown == [threw |-> TRUE, granted |-> FALSE, reason |-> NoReason]
NoResult == [threw |-> FALSE, granted |-> FALSE, reason |-> NoReason]

\* !userRoles || userRoles.length === 0
NoRoles(userRoles) == ~IsDefined(userRoles) \/ Len(ValueOf(userRoles)) = 0

HasPermissionFailOpen(store, dbOk, userRoles, requiredPermission) ==
  IF ~dbOk THEN Thrown
  ELSE LET permissions ==
             GetPermissionsForRoles(store,
               IF IsDefined(userRoles) THEN ValueOf(userRoles) ELSE <<>>)
       IN IF Includes(permissions, requiredPermission) \/ NoRoles(userRoles)
          THEN Granted
          ELSE Denied(MESSAGE_INSUFFICIENT_PERMISSIONS)

HasPermission(store, dbOk, userRoles, requiredPermission) ==
  IF NoRoles(userRoles) THEN Denied(MESSAGE_NO_ROLES_ASSIGNED)
  ELSE IF ~dbOk THEN Thrown
  ELSE LET permissions == GetPermissionsForRoles(store, ValueOf(userRoles))
       IN IF Includes(permissions, requiredPermission)
          THEN Granted
          ELSE Denied(MESSAGE_INSUFFICIENT_PERMISSIONS)

\* AuthorizationService.hasPermission, the variant that wraps the same body
\* in try/catch
AuthorizationService_hasPermission(store, dbOk, userRoles, requiredPermission) ==
  LET result == HasPermission(store, dbOk, userRoles, requiredPermission)
  IN IF result.threw THEN Denied(MESSAGE_PERMISSION_NOT_FOUND) ELSE result

HasAnyPermission(store, dbOk, userRoles, requiredPermissions) ==
  IF NoRoles(userRoles) THEN Denied(MESSAGE_NO_ROLES_ASSIGNED)
  ELSE IF ~dbOk THEN Thrown
  ELSE LET permissions == GetPermissionsForRoles(store, ValueOf(userRoles))
           hasPermission ==
             SomeIncluded(requiredPermissions, permissions)
       IN IF hasPermission
          THEN Granted
          ELSE Denied(MESSAGE_INSUFFICIENT_PERMISSIONS)

HasAllPermissionsAsAny(store, dbOk, userRoles, requiredPermissions) ==
  HasAnyPermission(store, dbOk, userRoles, requiredPermissions)

HasAllPermissionsNoEmptyCheck(store, dbOk, userRoles, requiredPermissions) ==
  IF ~dbOk THEN Thrown
  ELSE LET permissions ==
             GetPermissionsForRoles(store,
               IF IsDefined(userRoles) THEN ValueOf(userRoles) ELSE <<>>)
       IN IF EveryIncluded(requiredPermissions, permissions)
          THEN Granted
          ELSE Denied(MESSAGE_INSUFFICIENT_PERMISSIONS)

HasAllPermissions(store, dbOk, userRoles, requiredPermissions) ==
  IF NoRoles(userRoles) THEN Denied(MESSAGE_NO_ROLES_ASSIGNED)
  ELSE IF ~dbOk THEN Thrown
  ELSE LET permissions == GetPermissionsForRoles(store, ValueOf(userRoles))
           hasAllPermissions ==
             EveryIncluded(requiredPermissions, permissions)
       IN IF hasAllPermissions
          THEN Granted
          ELSE Denied(MESSAGE_INSUFFICIENT_PERMISSIONS)

HasRoleViaStore(store, userRoles, requiredRole) ==
  IF NoRoles(userRoles) THEN Denied(MESSAGE_NO_ROLES_ASSIGNED)
  ELSE IF Includes(ValueOf(userRoles), requiredRole)
          /\ IsDefined(FindByName(store, requiredRole))
       THEN Granted
       ELSE Denied(MESSAGE_ROLE_NOT_FOUND)

\* the store parameter is the repository the service holds; hasRole never reads it
HasRole(store, userRoles, requiredRole) ==
  IF NoRoles(userRoles) THEN Denied(MESSAGE_NO_ROLES_ASSIGNED)
  ELSE IF Includes(ValueOf(userRoles), requiredRole)
       THEN Granted
       ELSE Denied(MESSAGE_ROLE_NOT_FOUND)

HasAnyRole(store, userRoles, requiredRoles) ==
  IF NoRoles(userRoles) THEN Denied(MESSAGE_NO_ROLES_ASSIGNED)
  ELSE LET hasRole ==
             SomeIncluded(requiredRoles, ValueOf(userRoles))
       IN IF hasRole
          THEN Granted
          ELSE Denied(MESSAGE_ROLE_NOT_FOUND)

\* userId === resourceOwnerId
IsOwner(userId, resourceOwnerId) ==
  IF userId = resourceOwnerId
  THEN Granted
  ELSE Denied(MESSAGE_INSUFFICIENT_PERMISSIONS)

(***************************************************************************)
(* RoleService operations: the store after the call and the error thrown   *)
(* ("" when the call returns a role).                                      *)
(***************************************************************************)
NoError == ""
Outcome(store, error) == [store |-> store, error |-> error]

RoleService_createRole(store, name, permissions) ==
  IF IsDefined(FindByName(store, name))
  THEN Outcome(store, MESSAGE_ROLE_ALREADY_EXISTS)
  ELSE IF HasDoc(store, name)
       THEN Outcome(store, "E11000 duplicate key")   \* unique index on name
       ELSE Outcome(RepoCreate(store, name, permissions), NoError)

RoleService_updateRolePermissions(store, name, permissions) ==
  IF HasDoc(store, name)
  THEN Outcome(RepoUpdatePermissions(store, name, permissions), NoError)
  ELSE Outcome(store, MESSAGE_ROLE_NOT_FOUND)

RoleService_addPermissionsToRole(store, name, permissions) ==
  IF HasDoc(store, name)
  THEN Outcome(RepoAddPermissions(store, name, permissions), NoError)
  ELSE Outcome(store, MESSAGE_ROLE_NOT_FOUND)

RoleService_removePermissionsFromRole(store, name, permissions) ==
  IF HasDoc(store, name)
  THEN Outcome(RepoRemovePermissions(store, name, permissions), NoError)
  ELSE Outcome(store, MESSAGE_ROLE_NOT_FOUND)

RoleService_deleteRole(store, name) ==
  IF HasDoc(store, name)
  THEN Outcome(RepoDelete(store, name), NoError)
  ELSE Outcome(store, MESSAGE_ROLE_NOT_FOUND)

(***************************************************************************)
(* Inputs of the model.                                                    *)
(***************************************************************************)
StoreRoleInputs == {"admin", "user"}
StorePermInputs == {<<"user:list">>, <<"user:delete", "user:list">>}
StoreChangeInputs == {<<"user:list">>}
\* a name is unknown to the store until its role is created
RoleNameInputs == {"admin", "user"}
PermInputs == {"user:list", "user:delete"}
CallerRoleInputs ==
  {Undefined} \cup {Some(l) : l \in SeqsUpTo(RoleNameInputs, MaxListLen)}
RequiredPermInputs == SeqsUpTo(PermInputs, MaxListLen)
RequiredRoleInputs == SeqsUpTo(RoleNameInputs, MaxListLen)

(***************************************************************************)
(* Role administration actions.  A pending call result is observed         *)
(* (CallReturn) before the next operation is issued.                       *)
(***************************************************************************)
Idle == lastCall = Undefined /\ req.phase # "done"

\* sign-up and user deletion are requests of their own; they commute with
\* the guards of a request in flight, which read req.user only
NoRequestInFlight == lastCall = Undefined /\ req.phase = "idle"

CreateRole(name, permissions) ==
  /\ Idle
  /\ roleStore' = RoleService_createRole(roleStore, name, permissions).store
  /\ UNCHANGED <<lastCall, users, nextId, env, req>>
  /\ UNCHANGED sessionVars

UpdateRolePermissions(name, permissions) ==
  /\ Idle
  /\ roleStore' =
       RoleService_updateRolePermissions(roleStore, name, permissions).store
  /\ UNCHANGED <<lastCall, users, nextId, env, req>>
  /\ UNCHANGED sessionVars

AddPermissionsToRole(name, permissions) ==
  /\ Idle
  /\ roleStore' =
       RoleService_addPermissionsToRole(roleStore, name, permissions).store
  /\ UNCHANGED <<lastCall, users, nextId, env, req>>
  /\ UNCHANGED sessionVars

RemovePermissionsFromRole(name, permissions) ==
  /\ Idle
  /\ roleStore' =
       RoleService_removePermissionsFromRole(roleStore, name, permissions).store
  /\ UNCHANGED <<lastCall, users, nextId, env, req>>
  /\ UNCHANGED sessionVars

DeleteRole(name) ==
  /\ Idle
  /\ roleStore' = RoleService_deleteRole(roleStore, name).store
  /\ UNCHANGED <<lastCall, users, nextId, env, req>>
  /\ UNCHANGED sessionVars

(***************************************************************************)
(* Calls of the decision functions and of getPermissionsForRoles.          *)
(***************************************************************************)
Call(fn, userRoles, one, many, dbOk, result, perms) ==
  [fn |-> fn, userRoles |-> userRoles, one |-> one, many |-> many,
   dbOk |-> dbOk, result |-> result, perms |-> perms]

CallHasPermission(userRoles, permission, dbOk) ==
  /\ Idle
  /\ lastCall' = Some(Call("hasPermission", userRoles, permission, <<>>, dbOk,
                   HasPermission(roleStore, dbOk, userRoles, permission), <<>>))
  /\ UNCHANGED <<roleStore, users, nextId, env, req>>
  /\ UNCHANGED sessionVars

CallAuthorizationServiceHasPermission(userRoles, permission, dbOk) ==
  /\ Idle
  /\ lastCall' = Some(Call("AuthorizationService.hasPermission", userRoles,
                   permission, <<>>, dbOk,
                   AuthorizationService_hasPermission(roleStore, dbOk,
                                                      userRoles, permission),
                   <<>>))
  /\ UNCHANGED <<roleStore, users, nextId, env, req>>
  /\ UNCHANGED sessionVars

CallHasAnyPermission(userRoles, permissions, dbOk) ==
  /\ Idle
  /\ lastCall' = Some(Call("hasAnyPermission", userRoles, "", permissions, dbOk,
                   HasAnyPermission(roleStore, dbOk, userRoles, permissions),
                   <<>>))
  /\ UNCHANGED <<roleStore, users, nextId, env, req>>
  /\ UNCHANGED sessionVars

CallHasAllPermissions(userRoles, permissions, dbOk) ==
  /\ Idle
  /\ lastCall' = Some(Call("hasAllPermissions", userRoles, "", permissions, dbOk,
                   HasAllPermissions(roleStore, dbOk, userRoles, permissions),
                   <<>>))
  /\ UNCHANGED <<roleStore, users, nextId, env, req>>
  /\ UNCHANGED sessionVars

CallHasRole(userRoles, role) ==
  /\ Idle
  /\ lastCall' = Some(Call("hasRole", userRoles, role, <<>>, TRUE,
                   HasRole(roleStore, userRoles, role), <<>>))
  /\ UNCHANGED <<roleStore, users, nextId, env, req>>
  /\ UNCHANGED sessionVars

CallHasAnyRole(userRoles, roles) ==
  /\ Idle
  /\ lastCall' = Some(Call("hasAnyRole", userRoles, "", roles, TRUE,
                   HasAnyRole(roleStore, userRoles, roles), <<>>))
  /\ UNCHANGED <<roleStore, users, nextId, env, req>>
  /\ UNCHANGED sessionVars

CallGetPermissionsForRoles(roles) ==
  /\ Idle
  /\ lastCall' = Some(Call("getPermissionsForRoles", Some(roles), "", <<>>, TRUE,
                   NoResult, GetPermissionsForRoles(roleStore, roles)))
  /\ UNCHANGED <<roleStore, users, nextId, env, req>>
  /\ UNCHANGED sessionVars

CallReturn ==
  /\ lastCall # Undefined
  /\ lastCall' = Undefined
  /\ UNCHANGED <<roleStore, users, nextId, env, req>>
  /\ UNCHANGED sessionVars

(***************************************************************************)
(* User store: the users collection keyed by _id.  Ids are allocated in    *)
(* order; a deleted user leaves its id unused for ever.                    *)
(***************************************************************************)
UserIds == 1..MaxUsers

UserDoc(id, email, roles) == [id |-> id, email |-> email, roles |-> roles]

\* email.toLowerCase().trim() on the addresses of EmailInputs
EmailInputs == {"a@x.io", "A@x.io", "b@x.io"}
NormalizeEmail(email) ==
  IF email = "A@x.io" THEN "a@x.io"
  ELSE IF email = " b@x.io " THEN "b@x.io"
  ELSE email

\* User.findOne({ email })
FindByEmail(db, email) ==
  IF \E id \in UserIds : IsDefined(db[id]) /\ ValueOf(db[id]).email = email
  THEN db[CHOOSE id \in UserIds :
            IsDefined(db[id]) /\ ValueOf(db[id]).email = email]
  ELSE Undefined

\* User.findById(id)
FindById(db, id) == IF id \in UserIds THEN db[id] ELSE Undefined

\* authentication(salt, password): HMAC-SHA256 keyed by salt and password
Hash(salt, password) == <<salt, password>>

\* the authentication sub-document written by register: generateSalt() is
\* random, modelled by a salt that differs from user to user
AuthenticationDoc(id, password) ==
  [salt |-> id, password |-> Hash(id, password), token |-> Undefined]

PasswordInputs == {"password-1", "password-2"}
RegisteredPassword == "password-1"

\* let userRoles = roles || [Role.USER]  (an empty array is truthy)
\* a register that ignores the supplied list
RegisterRolesAlwaysDefault(roles) == <<"user">>

\* roles || [Role.USER]
RegisterRoles(roles) == IF IsDefined(roles) THEN ValueOf(roles) ELSE <<"user">>

UserRoleInputs == {Undefined, Some(<<>>), Some(<<"admin">>)}

\* AuthService.register with a well-formed password and username
Register(email, roles) ==
  /\ NoRequestInFlight
  /\ nextId < MaxUsers
  /\ LET normalizedEmail == NormalizeEmail(email)
         existingUser == FindByEmail(users, normalizedEmail)
     IN IF IsDefined(existingUser)
        THEN UNCHANGED <<users, nextId, authentication>>
        ELSE /\ users' = [users EXCEPT ![nextId + 1] =
                  Some(UserDoc(nextId + 1, normalizedEmail, RegisterRoles(roles)))]
             /\ authentication' = [authentication EXCEPT ![nextId + 1] =
                  Some(AuthenticationDoc(nextId + 1, RegisteredPassword))]
             /\ nextId' = nextId + 1
  /\ UNCHANGED <<roleStore, lastCall, env, req>>
  /\ UNCHANGED <<clock, issued, pending, lastOp>>

\* UserService.deleteUser: User.findByIdAndDelete(id)
DeleteUser(id) ==
  /\ NoRequestInFlight
  /\ users' = [users EXCEPT ![id] = Undefined]
  /\ authentication' = [authentication EXCEPT ![id] = Undefined]
  /\ UNCHANGED <<roleStore, lastCall, nextId, env, req>>
  /\ UNCHANGED <<clock, issued, pending, lastOp>>

(***************************************************************************)
(* JSON Web Tokens.  A token is the payload { id }, the secret it was      *)
(* signed with and whether its exp has passed when it is presented; a      *)
(* token that is not well formed is any other string.                      *)
(***************************************************************************)
AccessSecret == "access-secret"
OtherSecret == "other-secret"

Token(id, key, expired) ==
  [wellFormed |-> TRUE, id |-> id, key |-> key, expired |-> expired]
Garbage == [wellFormed |-> FALSE, id |-> 0, key |-> "", expired |-> FALSE]

JwtVerifyIgnoringKey(token, secret) ==
  IF token.wellFormed /\ ~token.expired
  THEN Some([id |-> token.id])
  ELSE Undefined

\* jwt.verify(token, secret): the decoded payload, or Undefined when it
\* throws a JsonWebTokenError (TokenExpiredError is one)
JwtVerify(token, secret) ==
  IF token.wellFormed /\ token.key = secret /\ ~token.expired
  THEN Some([id |-> token.id])
  ELSE Undefined

\* req.headers.authorization
Header(scheme, credentials) == [scheme |-> scheme, credentials |-> credentials]

\* authorization.startsWith('Bearer') ? authorization.split(' ')[1] : undefined
ExtractToken(authorization) ==
  IF IsDefined(authorization) /\ ValueOf(authorization).scheme = "Bearer"
  THEN ValueOf(authorization).credentials
  ELSE Undefined

(***************************************************************************)
(* Request gate.  A guard either calls next() or sends one error response  *)
(* and returns; its outcome says which, and the user it leaves on req.user.*)
(***************************************************************************)
Pass(user) ==
  [next |-> TRUE, responded |-> FALSE, status |-> 0, message |-> "",
   user |-> user, caught |-> FALSE]
Reject(status, message, user) ==
  [next |-> FALSE, responded |-> TRUE, status |-> status, message |-> message,
   user |-> user, caught |-> FALSE]
\* the response sent from the catch block of a guard
RejectCaught(status, message, user) ==
  [next |-> FALSE, responded |-> TRUE, status |-> status, message |-> message,
   user |-> user, caught |-> TRUE]
RejectAndContinue(status, message, user) ==
  [next |-> TRUE, responded |-> TRUE, status |-> status, message |-> message,
   user |-> user, caught |-> FALSE]

\* result.reason || MESSAGE_INSUFFICIENT_PERMISSIONS
ReasonOr(result) ==
  IF result.reason = NoReason THEN MESSAGE_INSUFFICIENT_PERMISSIONS
  ELSE result.reason

\* req.user.roles || []
RolesOf(r) == Some(ValueOf(r.user).roles)

\* req.params[resourceIdParam]
Param(r, resourceIdParam) ==
  IF resourceIdParam = "id" THEN r.params ELSE Undefined

IsAuthenticatedAttachAny(r, db, environment, dbOk) ==
  LET token == ExtractToken(r.authorization)
  IN IF ~IsDefined(token) THEN Reject(401, MESSAGE_UNAUTHORIZED, r.user)
     ELSE IF ~IsDefined(environment.JWT_SECRET)
          THEN Reject(400, MESSAGE_SERVER_CONFIG_ERROR, r.user)
     ELSE LET decoded == JwtVerify(ValueOf(token),
                                   ValueOf(environment.JWT_SECRET))
          IN IF ~IsDefined(decoded)
             THEN Reject(401, MESSAGE_INVALID_TOKEN, r.user)
             ELSE IF ~dbOk
                  THEN RejectCaught(400, MESSAGE_AUTHENTICATION_FAILED, r.user)
             ELSE IF \E id \in UserIds : IsDefined(db[id])
                  THEN Pass(db[CHOOSE id \in UserIds : IsDefined(db[id])])
                  ELSE Reject(401, MESSAGE_UNAUTHORIZED, r.user)

\* a guard that trusts the token alone: the payload is attached when the
\* user record is gone
IsAuthenticatedNoLookup(r, db, environment, dbOk) ==
  LET token == ExtractToken(r.authorization)
  IN IF ~IsDefined(token) THEN Reject(401, MESSAGE_UNAUTHORIZED, r.user)
     ELSE IF ~IsDefined(environment.JWT_SECRET)
          THEN Reject(400, MESSAGE_SERVER_CONFIG_ERROR, r.user)
     ELSE LET decoded == JwtVerify(ValueOf(token),
                                   ValueOf(environment.JWT_SECRET))
          IN IF ~IsDefined(decoded)
             THEN Reject(401, MESSAGE_INVALID_TOKEN, r.user)
             ELSE IF ~dbOk
                  THEN RejectCaught(400, MESSAGE_AUTHENTICATION_FAILED, r.user)
             ELSE LET currentUser == FindById(db, ValueOf(decoded).id)
                  IN IF ~IsDefined(currentUser)
                     THEN Pass(Some(UserDoc(ValueOf(decoded).id, "", <<>>)))
                     ELSE Pass(currentUser)

IsAuthenticated(r, db, environment, dbOk) ==
  LET token == ExtractToken(r.authorization)
  IN IF ~IsDefined(token) THEN Reject(401, MESSAGE_UNAUTHORIZED, r.user)
     ELSE IF ~IsDefined(environment.JWT_SECRET)
          THEN Reject(400, MESSAGE_SERVER_CONFIG_ERROR, r.user)
     ELSE LET decoded == JwtVerify(ValueOf(token),
                                   ValueOf(environment.JWT_SECRET))
          IN IF ~IsDefined(decoded)
             THEN Reject(401, MESSAGE_INVALID_TOKEN, r.user)
             ELSE IF ~dbOk   \* UserModel.findById rejects: generic catch
                  THEN RejectCaught(400, MESSAGE_AUTHENTICATION_FAILED, r.user)
             ELSE LET currentUser == FindById(db, ValueOf(decoded).id)
                  IN IF ~IsDefined(currentUser)
                     THEN Reject(401, MESSAGE_UNAUTHORIZED, r.user)
                     ELSE Pass(currentUser)

\* the shape shared by requirePermission .. requireAnyRole: result is the
\* decision of the service call on req.user.roles
DecisionGuardFallThrough(r, result) ==
  IF ~IsDefined(r.user) THEN Reject(401, MESSAGE_UNAUTHORIZED, r.user)
  ELSE IF result.threw
       THEN RejectAndContinue(403, MESSAGE_INSUFFICIENT_PERMISSIONS, r.user)
  ELSE IF ~result.granted
       THEN RejectAndContinue(403, ReasonOr(result), r.user)
  ELSE Pass(r.user)

DecisionGuard(r, result) ==
  IF ~IsDefined(r.user) THEN Reject(401, MESSAGE_UNAUTHORIZED, r.user)
  ELSE IF result.threw
       THEN RejectCaught(403, MESSAGE_INSUFFICIENT_PERMISSIONS, r.user)
  ELSE IF ~result.granted THEN Reject(403, ReasonOr(result), r.user)
  ELSE Pass(r.user)

RequirePermissionStale(requiredPermission, r, store, dbOk) ==
  IF ~IsDefined(r.user) THEN Reject(401, MESSAGE_UNAUTHORIZED, r.user)
  ELSE IF requiredPermission \in r.permsAtAuth THEN Pass(r.user)
  ELSE Reject(403, MESSAGE_INSUFFICIENT_PERMISSIONS, r.user)

RequirePermission(requiredPermission, r, store, dbOk) ==
  DecisionGuard(r, IF IsDefined(r.user)
                   THEN HasPermission(store, dbOk, RolesOf(r), requiredPermission)
                   ELSE NoResult)

RequireAnyPermission(requiredPermissions, r, store, dbOk) ==
  DecisionGuard(r, IF IsDefined(r.user)
                   THEN HasAnyPermission(store, dbOk, RolesOf(r),
                                         requiredPermissions)
                   ELSE NoResult)

RequireAllPermissions(requiredPermissions, r, store, dbOk) ==
  DecisionGuard(r, IF IsDefined(r.user)
                   THEN HasAllPermissions(store, dbOk, RolesOf(r),
                                          requiredPermissions)
                   ELSE NoResult)

RequireRole(requiredRole, r, store) ==
  DecisionGuard(r, IF IsDefined(r.user)
                   THEN HasRole(store, RolesOf(r), requiredRole)
                   ELSE NoResult)

RequireAnyRole(requiredRoles, r, store) ==
  DecisionGuard(r, IF IsDefined(r.user)
                   THEN HasAnyRole(store, RolesOf(r), requiredRoles)
                   ELSE NoResult)

RequireOwnershipOrAdmin(resourceIdParam, r, store) ==
  IF ~IsDefined(r.user) THEN Reject(401, MESSAGE_UNAUTHORIZED, r.user)
  ELSE LET resourceOwnerId == Param(r, resourceIdParam)
           userId == Some(ValueOf(r.user).id)
           isOwner == IsOwner(userId, resourceOwnerId)
       IN IF isOwner.granted THEN Pass(r.user)
          ELSE LET hasAdminRole ==
                     HasAnyRole(store, RolesOf(r), <<"super_admin", "admin">>)
               IN IF hasAdminRole.granted THEN Pass(r.user)
                  ELSE Reject(403, MESSAGE_INSUFFICIENT_PERMISSIONS, r.user)

RequireOwnershipOrPermissionNoOwnerCheck(resourceIdParam, permission, r, store, dbOk) ==
  RequirePermission(permission, r, store, dbOk)

RequireOwnershipOrPermission(resourceIdParam, permission, r, store, dbOk) ==
  IF ~IsDefined(r.user) THEN Reject(401, MESSAGE_UNAUTHORIZED, r.user)
  ELSE LET resourceOwnerId == Param(r, resourceIdParam)
           userId == Some(ValueOf(r.user).id)
           isOwner == IsOwner(userId, resourceOwnerId)
       IN IF isOwner.granted THEN Pass(r.user)
          ELSE LET hasPermission ==
                     HasPermission(store, dbOk, RolesOf(r), permission)
               IN IF hasPermission.threw
                  THEN RejectCaught(403, MESSAGE_INSUFFICIENT_PERMISSIONS,
                                    r.user)
                  ELSE IF hasPermission.granted THEN Pass(r.user)
                  ELSE Reject(403, MESSAGE_INSUFFICIENT_PERMISSIONS, r.user)

(***************************************************************************)
(* Routes: the guard chain in front of each handler.                       *)
(***************************************************************************)
Guard(kind, one, many) == [kind |-> kind, one |-> one, many |-> many]
Authenticate == Guard("isAuthenticated", "", <<>>)

Route(name, hasId, chain) == [name |-> name, hasId |-> hasId, chain |-> chain]

Routes ==
  << Route("GET /auth/me", FALSE, <<Authenticate>>),
     Route("GET /users", FALSE,
           <<Authenticate, Guard("requirePermission", "user:list", <<>>)>>),
     Route("GET /users/:id", TRUE,
           <<Authenticate,
             Guard("requireOwnershipOrPermission", "user:read", <<"id">>)>>),
     Route("DELETE /users/:id", TRUE,
           <<Authenticate,
             Guard("requireAnyRole", "", <<"super_admin", "admin">>),
             Guard("requirePermission", "user:delete", <<>>)>>),
     Route("POST /roles", FALSE,
           <<Authenticate,
             Guard("requireAnyRole", "", <<"super_admin">>),
             Guard("requirePermission", "role:create", <<>>)>>),
     \* usage documented in the README for the remaining factories
     Route("GET /users (any)", FALSE,
           <<Authenticate,
             Guard("requireAnyPermission", "", <<"user:read", "user:list">>)>>),
     Route("POST /users", FALSE,
           <<Authenticate,
             Guard("requireAllPermissions", "",
                   <<"user:create", "role:assign">>)>>),
     Route("DELETE /users/:id (role)", TRUE,
           <<Authenticate, Guard("requireRole", "admin", <<>>)>>),
     Route("PUT /users/:id", TRUE,
           <<Authenticate, Guard("requireOwnershipOrAdmin", "", <<"id">>)>>) >>

RouteIds == 1..Len(Routes)
Chain(r) == Routes[r.route].chain

RunGuard(g, r, db, store, environment, dbOk) ==
  CASE g.kind = "isAuthenticated" -> IsAuthenticated(r, db, environment, dbOk)
    [] g.kind = "requirePermission" -> RequirePermission(g.one, r, store, dbOk)
    [] g.kind = "requireAnyPermission" ->
         RequireAnyPermission(g.many, r, store, dbOk)
    [] g.kind = "requireAllPermissions" ->
         RequireAllPermissions(g.many, r, store, dbOk)
    [] g.kind = "requireRole" -> RequireRole(g.one, r, store)
    [] g.kind = "requireAnyRole" -> RequireAnyRole(g.many, r, store)
    [] g.kind = "requireOwnershipOrAdmin" ->
         RequireOwnershipOrAdmin(g.many[1], r, store)
    [] g.kind = "requireOwnershipOrPermission" ->
         RequireOwnershipOrPermission(g.many[1], g.one, r, store, dbOk)

\* a router in which only the last guard of the chain decides
ReachesHandlerByLast(chain, r, db, store, environment, dbOk) ==
  \/ chain = <<>>
  \/ RunGuard(chain[Len(chain)], r, db, store, environment, dbOk).next

\* router.delete(path, g1, g2, ..., handler): Express runs the guards in
\* order, each one only when the guard before it called next()
RECURSIVE ReachesHandler(_, _, _, _, _, _)
ReachesHandler(chain, r, db, store, environment, dbOk) ==
  IF chain = <<>>
  THEN TRUE
  ELSE LET out == RunGuard(Head(chain), r, db, store, environment, dbOk)
       IN /\ out.next
          /\ ReachesHandler(Tail(chain), [r EXCEPT !.user = out.user], db,
                            store, environment, dbOk)

(***************************************************************************)
(* The request in flight.  ran, passed, caught and permsAtAuth are history *)
(* of the request: the guards that ran, those that called next, whether    *)
(* the last guard answered from its catch block, and the permissions the   *)
(* attached user's active roles carried when isAuthenticated attached it.  *)
(***************************************************************************)
ActivePermissionSet(store, roles) ==
  UNION {Elems(store[i].permissions) :
           i \in {j \in 1..Len(store) :
                    store[j].isActive /\ store[j].name \in Elems(roles)}}

NoRequest ==
  [phase |-> "idle", route |-> 1, step |-> 1, authorization |-> Undefined,
   params |-> Undefined, user |-> Undefined, ran |-> <<>>, passed |-> <<>>,
   responses |-> <<>>, handlerRan |-> FALSE, caught |-> FALSE,
   permsAtAuth |-> {}]

TokenInputs ==
  {Garbage, Token(1, AccessSecret, TRUE), Token(1, OtherSecret, FALSE)}
    \cup {Token(id, AccessSecret, FALSE) : id \in 1..nextId}

AuthorizationInputs ==
  {Undefined, Some(Header("Bearer", Undefined)),
   Some(Header("Basic", Some(Token(1, AccessSecret, FALSE))))}
    \cup {Some(Header("Bearer", Some(t))) : t \in TokenInputs}

ParamInputs(route) ==
  IF Routes[route].hasId THEN {Some(id) : id \in UserIds} ELSE {Undefined}

NewRequest(route, authorization, params) ==
  /\ req.phase = "idle"
  /\ req' = [NoRequest EXCEPT !.phase = "inflight", !.route = route,
                              !.authorization = authorization,
                              !.params = params]
  /\ UNCHANGED <<roleStore, lastCall, users, nextId, env>>
  /\ UNCHANGED sessionVars

\* Express runs the next middleware of the chain only when the current one
\* called next()
GuardStep(dbOk) ==
  /\ req.phase = "inflight"
  /\ req.step <= Len(Chain(req))
  /\ LET g == Chain(req)[req.step]
         out == RunGuard(g, req, users, roleStore, env, dbOk)
     IN req' = [req EXCEPT
                  !.user = out.user,
                  !.ran = Append(@, req.step),
                  !.passed = IF out.next THEN Append(@, req.step) ELSE @,
                  !.responses =
                     IF out.responded
                     THEN Append(@, [status |-> out.status,
                                     message |-> out.message])
                     ELSE @,
                  !.step = IF out.next THEN @ + 1 ELSE @,
                  !.phase = IF out.next THEN "inflight" ELSE "done",
                  !.caught = out.caught,
                  !.permsAtAuth =
                     IF g.kind = "isAuthenticated" /\ out.next
                     THEN ActivePermissionSet(roleStore,
                                              ValueOf(out.user).roles)
                     ELSE @]
  /\ UNCHANGED <<roleStore, lastCall, users, nextId, env>>
  /\ UNCHANGED sessionVars

\* the controller behind the chain answers the request
HandlerStep ==
  /\ req.phase = "inflight"
  /\ req.step = Len(Chain(req)) + 1
  /\ req' = [req EXCEPT !.handlerRan = TRUE,
                        !.responses = Append(@, [status |-> 200,
                                                 message |-> ""]),
                        !.phase = "done"]
  /\ UNCHANGED <<roleStore, lastCall, users, nextId, env>>
  /\ UNCHANGED sessionVars

\* the response is on the wire: the request object is dropped
EndRequest ==
  /\ req.phase = "done"
  /\ req' = NoRequest
  /\ UNCHANGED <<roleStore, lastCall, users, nextId, env>>
  /\ UNCHANGED sessionVars

(***************************************************************************)
(* Sessions: AuthService.authenticate, signOut and tokenRefresh over the   *)
(* users collection.  A service call that awaits the database twice is two *)
(* steps, with the call parked in pending between them.                    *)
(***************************************************************************)
HTTP_OK == 200
HTTP_BAD_REQUEST == 400
HTTP_UNAUTHORIZED == 401
HTTP_FORBIDDEN == 403
HTTP_NOT_FOUND == 404
HTTP_INTERNAL_SERVER_ERROR == 500

MESSAGE_NOT_FOUND == "Data Not found!"
MESSAGE_FORBIDDEN == "Forbidden!"
MESSAGE_EMAIL_PASSWORD_REQUIRED == "Email and password are required"
MESSAGE_INVALID_CREDENTIALS == "Invalid credentials"
MESSAGE_INVALID_EMAIL_FORMAT == "Invalid email format"
MESSAGE_USER_ALREADY_EXISTS == "User with this email already exists"
MESSAGE_INVALID_REFRESH_TOKEN == "Invalid refresh token"
MESSAGE_JWT_REFRESH_SECRET_NOT_CONFIGURED == "JWT_REFRESH_SECRET is not configured"
MESSAGE_INVALID_EXPIRED_REFRESH_TOKEN == "Invalid or expired refresh token"
\* the message of the MongoServerError raised by the unique index on email
MESSAGE_DOCUMENT_NOT_FOUND == "No document found for query"
MESSAGE_DUPLICATE_KEY == "E11000 duplicate key error"

\* jwt.sign({ id }, key, { expiresIn: ttl }) at second iat: two tokens are the
\* same string iff payload, key, lifetime and second of issue are the same
Sign(id, key, ttl, iat) ==
  [wellFormed |-> TRUE, id |-> id, key |-> key, expired |-> FALSE,
   ttl |-> ttl, iat |-> iat]

GenerateAccessToken(environment, id, now) ==
  Sign(id, ValueOf(environment.JWT_SECRET), "15m", now)
\* a refresh token signed for one and the same subject, whoever signs in
GenerateRefreshTokenForFirst(environment, id, now) ==
  Sign(1, ValueOf(environment.JWT_REFRESH_SECRET), "1d", now)
GenerateRefreshToken(environment, id, now) ==
  Sign(id, ValueOf(environment.JWT_REFRESH_SECRET), "1d", now)

\* the token string, whatever the moment it is presented at
TokenString(token) == [token EXCEPT !.expired = FALSE]
\* the token presented before or after its exp
PresentedAt(token, expired) == [token EXCEPT !.expired = expired]

\* a lookup by the subject of the token instead of the stored string
HoldersOfBySubject(auth, token) ==
  {id \in UserIds :
     /\ IsDefined(auth[id])
     /\ IsDefined(ValueOf(auth[id]).token)
     /\ token.wellFormed
     /\ token.id = id}

\* User.findOne({ 'authentication.token': token })
HoldersOf(auth, token) ==
  {id \in UserIds :
     IsDefined(auth[id]) /\ ValueOf(auth[id]).token = Some(TokenString(token))}
FindByToken(auth, token) ==
  IF HoldersOf(auth, token) = {} THEN Undefined
  ELSE Some(CHOOSE id \in HoldersOf(auth, token) :
              \A other \in HoldersOf(auth, token) : id <= other)

\* what a service call returns or throws
Success(userId, accessToken, refreshToken) ==
  [ok |-> TRUE, raw |-> FALSE, status |-> HTTP_OK, message |-> "",
   userId |-> userId, accessToken |-> accessToken,
   refreshToken |-> refreshToken]
\* throw new AppError(message, status)
Failure(status, message) ==
  [ok |-> FALSE, raw |-> FALSE, status |-> status, message |-> message,
   userId |-> Undefined, accessToken |-> Undefined,
   refreshToken |-> Undefined]
\* an error that is no AppError: the global handler answers with
\* err.statusCode || 500
RawError(message) ==
  [ok |-> FALSE, raw |-> TRUE, status |-> HTTP_INTERNAL_SERVER_ERROR,
   message |-> message, userId |-> Undefined, accessToken |-> Undefined,
   refreshToken |-> Undefined]

\* a refresh that meets the missing secret only when it verifies
AuthService_tokenRefreshVerifyFirst(auth, environment, incomingRefreshToken, now) ==
  IF ~IsDefined(incomingRefreshToken)
  THEN Failure(HTTP_BAD_REQUEST, MESSAGE_INVALID_REFRESH_TOKEN)
  ELSE IF ~IsDefined(environment.JWT_REFRESH_SECRET)
  THEN Failure(HTTP_UNAUTHORIZED, MESSAGE_INVALID_EXPIRED_REFRESH_TOKEN)
  ELSE LET token == ValueOf(incomingRefreshToken)
           decoded == JwtVerify(token, ValueOf(environment.JWT_REFRESH_SECRET))
           user == FindByToken(auth, token)
       IN IF ~IsDefined(decoded)
          THEN Failure(HTTP_UNAUTHORIZED, MESSAGE_INVALID_EXPIRED_REFRESH_TOKEN)
          ELSE IF ~IsDefined(user)
          THEN Failure(HTTP_NOT_FOUND, MESSAGE_NOT_FOUND)
          ELSE IF ValueOf(user) # ValueOf(decoded).id
          THEN Failure(HTTP_FORBIDDEN, MESSAGE_FORBIDDEN)
          ELSE Success(user,
                       Some(GenerateAccessToken(environment, ValueOf(user),
                                                now)),
                       Undefined)

\* a refresh that trusts the signature alone and never looks the token up
AuthService_tokenRefreshNoLookup(auth, environment, incomingRefreshToken, now) ==
  IF ~IsDefined(incomingRefreshToken)
  THEN Failure(HTTP_BAD_REQUEST, MESSAGE_INVALID_REFRESH_TOKEN)
  ELSE IF ~IsDefined(environment.JWT_REFRESH_SECRET)
  THEN Failure(HTTP_INTERNAL_SERVER_ERROR,
               MESSAGE_JWT_REFRESH_SECRET_NOT_CONFIGURED)
  ELSE LET decoded == JwtVerify(ValueOf(incomingRefreshToken),
                                ValueOf(environment.JWT_REFRESH_SECRET))
       IN IF ~IsDefined(decoded)
          THEN Failure(HTTP_UNAUTHORIZED, MESSAGE_INVALID_EXPIRED_REFRESH_TOKEN)
          ELSE Success(Some(ValueOf(decoded).id),
                       Some(GenerateAccessToken(environment,
                                                ValueOf(decoded).id, now)),
                       Undefined)

\* AuthService.tokenRefresh: reads only
AuthService_tokenRefresh(auth, environment, incomingRefreshToken, now) ==
  IF ~IsDefined(incomingRefreshToken)
  THEN Failure(HTTP_BAD_REQUEST, MESSAGE_INVALID_REFRESH_TOKEN)
  ELSE IF ~IsDefined(environment.JWT_REFRESH_SECRET)
  THEN Failure(HTTP_INTERNAL_SERVER_ERROR,
               MESSAGE_JWT_REFRESH_SECRET_NOT_CONFIGURED)
  ELSE LET token == ValueOf(incomingRefreshToken)
           decoded == JwtVerify(token, ValueOf(environment.JWT_REFRESH_SECRET))
           user == FindByToken(auth, token)
       IN IF ~IsDefined(decoded)
          THEN Failure(HTTP_UNAUTHORIZED, MESSAGE_INVALID_EXPIRED_REFRESH_TOKEN)
          ELSE IF ~IsDefined(user)
          THEN Failure(HTTP_NOT_FOUND, MESSAGE_NOT_FOUND)
          ELSE IF ValueOf(user) # ValueOf(decoded).id
          THEN Failure(HTTP_FORBIDDEN, MESSAGE_FORBIDDEN)
          ELSE Success(user,
                       Some(GenerateAccessToken(environment, ValueOf(user),
                                                now)),
                       Undefined)

\* AuthService.signOut up to the lookup: the failure, or the user found
AuthService_signOutFind(auth, refreshToken) ==
  IF ~IsDefined(refreshToken)
  THEN Failure(HTTP_BAD_REQUEST, MESSAGE_INVALID_REFRESH_TOKEN)
  ELSE IF ~IsDefined(FindByToken(auth, ValueOf(refreshToken)))
  THEN Failure(HTTP_NOT_FOUND, MESSAGE_NOT_FOUND)
  ELSE Success(FindByToken(auth, ValueOf(refreshToken)), Undefined, Undefined)

\* a sign-in that tells an unknown email from a wrong password
AuthService_authenticateFindTelling(db, auth, environment, email, password, now) ==
  IF ~IsDefined(email) \/ ~IsDefined(password)
  THEN Failure(HTTP_BAD_REQUEST, MESSAGE_EMAIL_PASSWORD_REQUIRED)
  ELSE LET user == FindByEmail(db, NormalizeEmail(ValueOf(email)))
       IN IF ~IsDefined(user)
          THEN Failure(HTTP_NOT_FOUND, MESSAGE_NOT_FOUND)
          ELSE IF Hash(ValueOf(auth[ValueOf(user).id]).salt, ValueOf(password))
                    # ValueOf(auth[ValueOf(user).id]).password
          THEN Failure(HTTP_UNAUTHORIZED, MESSAGE_INVALID_CREDENTIALS)
          ELSE Success(Some(ValueOf(user).id),
                       Some(GenerateAccessToken(environment,
                                                ValueOf(user).id, now)),
                       Some(GenerateRefreshToken(environment,
                                                 ValueOf(user).id, now)))

\* AuthService.authenticate up to the generation of the tokens
AuthService_authenticateFind(db, auth, environment, email, password, now) ==
  IF ~IsDefined(email) \/ ~IsDefined(password)
  THEN Failure(HTTP_BAD_REQUEST, MESSAGE_EMAIL_PASSWORD_REQUIRED)
  ELSE LET normalizedEmail == NormalizeEmail(ValueOf(email))
           user == FindByEmail(db, normalizedEmail)
       IN IF ~IsDefined(user)
          THEN Failure(HTTP_UNAUTHORIZED, MESSAGE_INVALID_CREDENTIALS)
          ELSE LET id == ValueOf(user).id
                   stored == ValueOf(auth[id])
                   expectedHash == Hash(stored.salt, ValueOf(password))
               IN IF expectedHash # stored.password
                  THEN Failure(HTTP_UNAUTHORIZED, MESSAGE_INVALID_CREDENTIALS)
                  ELSE Success(Some(id),
                               Some(GenerateAccessToken(environment, id, now)),
                               Some(GenerateRefreshToken(environment, id, now)))

\* the clients with a service call in flight
Callers == 1..MaxCallers

Op(name, arg, outcome) == [op |-> name, arg |-> arg, outcome |-> outcome]
Credentials(email, password) == [email |-> email, password |-> password]
IssuedAs(kind, token) == [kind |-> kind, token |-> token]

SessionIdle == lastOp = Undefined /\ req.phase = "idle"
LowestFree(c) ==
  pending[c] = Undefined /\ \A d \in Callers : d < c => pending[d] # Undefined
Parked(c, name) == IsDefined(pending[c]) /\ ValueOf(pending[c]).op = name

SignInEmailInputs ==
  {Undefined, Some("A@x.io"), Some(" b@x.io "), Some("c@x.io")}
SignInPasswordInputs == {Undefined} \cup {Some(password) : password \in PasswordInputs}

\* tokens a client can hold: those handed out by authenticate, presented
\* before or after their exp, and a string that is no token
SessionTokenInputs ==
  {Undefined, Some(Garbage)}
    \cup {Some(PresentedAt(i.token, expired)) : i \in issued,
                                               expired \in BOOLEAN}

\* signOut never verifies the token: only the string matters
SignOutTokenInputs ==
  {Undefined, Some(Garbage)} \cup {Some(i.token) : i \in issued}

\* authenticate, lines 245-287: validation, lookup, password check and the
\* generation of the two tokens
SignInBegin(c, email, password) ==
  /\ SessionIdle
  /\ LowestFree(c)
  /\ LET found == AuthService_authenticateFind(users, authentication, env,
                                               email, password, clock)
     IN IF found.ok
        THEN /\ pending' = [pending EXCEPT ![c] =
                  Some(Op("authenticate", Credentials(email, password), found))]
             /\ issued' = issued \cup
                  {IssuedAs("access", ValueOf(found.accessToken)),
                   IssuedAs("refresh", ValueOf(found.refreshToken))}
             /\ UNCHANGED lastOp
        ELSE /\ lastOp' = Some(Op("authenticate",
                                  Credentials(email, password), found))
             /\ UNCHANGED <<pending, issued>>
  /\ UNCHANGED <<authentication, clock>>
  /\ UNCHANGED <<roleStore, lastCall, users, nextId, env, req>>

\* authenticate, lines 289-297: user.authentication.token = refreshToken;
\* user.save()
SignInSave(c) ==
  /\ SessionIdle
  /\ Parked(c, "authenticate")
  /\ LET call == ValueOf(pending[c])
         id == ValueOf(call.outcome.userId)
     IN IF IsDefined(authentication[id])
        THEN /\ authentication' = [authentication EXCEPT ![id] =
                  Some([ValueOf(@) EXCEPT !.token = call.outcome.refreshToken])]
             /\ lastOp' = Some(call)
        \* the document is gone: save() throws DocumentNotFoundError
        ELSE /\ lastOp' = Some(Op(call.op, call.arg,
                                  RawError(MESSAGE_DOCUMENT_NOT_FOUND)))
             /\ UNCHANGED authentication
  /\ pending' = [pending EXCEPT ![c] = Undefined]
  /\ UNCHANGED <<clock, issued>>
  /\ UNCHANGED <<roleStore, lastCall, users, nextId, env, req>>

\* signOut, lines 393-407: validation and findByToken
SignOutBegin(c, refreshToken) ==
  /\ SessionIdle
  /\ LowestFree(c)
  /\ LET found == AuthService_signOutFind(authentication, refreshToken)
     IN IF found.ok
        THEN /\ pending' = [pending EXCEPT ![c] =
                  Some(Op("signOut", refreshToken, found))]
             /\ UNCHANGED lastOp
        ELSE /\ lastOp' = Some(Op("signOut", refreshToken, found))
             /\ UNCHANGED pending
  /\ UNCHANGED <<authentication, clock, issued>>
  /\ UNCHANGED <<roleStore, lastCall, users, nextId, env, req>>

\* a sign-out that clears the token of every user
SignOutSaveAll(c) ==
  /\ SessionIdle
  /\ Parked(c, "signOut")
  /\ authentication' =
       [id \in UserIds |->
          IF IsDefined(authentication[id])
          THEN Some([ValueOf(authentication[id]) EXCEPT !.token = Undefined])
          ELSE Undefined]
  /\ lastOp' = pending[c]
  /\ pending' = [pending EXCEPT ![c] = Undefined]
  /\ UNCHANGED <<clock, issued>>
  /\ UNCHANGED <<roleStore, lastCall, users, nextId, env, req>>

\* signOut, lines 409-413: user.authentication.token = undefined; user.save()
SignOutSave(c) ==
  /\ SessionIdle
  /\ Parked(c, "signOut")
  /\ LET call == ValueOf(pending[c])
         id == ValueOf(call.outcome.userId)
     IN IF IsDefined(authentication[id])
        THEN /\ authentication' = [authentication EXCEPT ![id] =
                  Some([ValueOf(@) EXCEPT !.token = Undefined])]
             /\ lastOp' = Some(call)
        \* the document is gone: save() throws DocumentNotFoundError
        ELSE /\ lastOp' = Some(Op(call.op, call.arg,
                                  RawError(MESSAGE_DOCUMENT_NOT_FOUND)))
             /\ UNCHANGED authentication
  /\ pending' = [pending EXCEPT ![c] = Undefined]
  /\ UNCHANGED <<clock, issued>>
  /\ UNCHANGED <<roleStore, lastCall, users, nextId, env, req>>

\* a refresh that rotates: it stores and returns a new refresh token
TokenRefreshRotating(incomingRefreshToken) ==
  /\ SessionIdle
  /\ LET outcome == AuthService_tokenRefresh(authentication, env,
                                             incomingRefreshToken, clock)
         id == ValueOf(outcome.userId)
         rotated == Some(GenerateRefreshToken(env, id, clock))
     IN IF outcome.ok
        THEN /\ authentication' = [authentication EXCEPT ![id] =
                  Some([ValueOf(@) EXCEPT !.token = rotated])]
             /\ lastOp' = Some(Op("tokenRefresh", incomingRefreshToken,
                                  [outcome EXCEPT !.refreshToken = rotated]))
        ELSE /\ lastOp' = Some(Op("tokenRefresh", incomingRefreshToken, outcome))
             /\ UNCHANGED authentication
  /\ UNCHANGED <<clock, issued, pending>>
  /\ UNCHANGED <<roleStore, lastCall, users, nextId, env, req>>

\* AuthService.tokenRefresh, lines 421-464
TokenRefresh(incomingRefreshToken) ==
  /\ SessionIdle
  /\ lastOp' = Some(Op("tokenRefresh", incomingRefreshToken,
                       AuthService_tokenRefresh(authentication, env,
                                                incomingRefreshToken, clock)))
  /\ UNCHANGED <<authentication, clock, issued, pending>>
  /\ UNCHANGED <<roleStore, lastCall, users, nextId, env, req>>

\* a second passes
Tick ==
  /\ SessionIdle
  /\ clock < MaxClock
  /\ clock' = clock + 1
  /\ UNCHANGED <<authentication, issued, pending, lastOp>>
  /\ UNCHANGED <<roleStore, lastCall, users, nextId, env, req>>

\* the caller has taken the outcome
OpReturn ==
  /\ lastOp # Undefined
  /\ lastOp' = Undefined
  /\ UNCHANGED <<authentication, clock, issued, pending>>
  /\ UNCHANGED <<roleStore, lastCall, users, nextId, env, req>>

\* GET /auth/me with a token of the session
SessionRequest(route, authorization) ==
  /\ lastOp = Undefined
  /\ NewRequest(route, authorization, Undefined)

(***************************************************************************)
(* Specifications.                                                         *)
(***************************************************************************)
RefreshSecret == "refresh-secret"
EnvOf(secret, refreshSecret) ==
  [JWT_SECRET |-> secret, JWT_REFRESH_SECRET |-> refreshSecret]
Env(secret) == EnvOf(secret, Some(RefreshSecret))

\* nothing signed, nothing in flight
NoSessions ==
  /\ authentication = [id \in UserIds |-> Undefined]
  /\ clock = 0
  /\ issued = {}
  /\ pending = [c \in Callers |-> Undefined]
  /\ lastOp = Undefined

InitEngine ==
  /\ roleStore = <<>>
  /\ lastCall = Undefined
  /\ users = [id \in UserIds |-> Undefined]
  /\ nextId = 0
  /\ env = Env(Some(AccessSecret))
  /\ req = NoRequest
  /\ NoSessions

NextEngine ==
  \/ \E name \in StoreRoleInputs, permissions \in StorePermInputs :
       CreateRole(name, permissions)
  \/ \E name \in StoreRoleInputs, permissions \in StoreChangeInputs :
       \/ UpdateRolePermissions(name, permissions)
       \/ AddPermissionsToRole(name, permissions)
       \/ RemovePermissionsFromRole(name, permissions)
  \/ \E name \in StoreRoleInputs : DeleteRole(name)
  \/ \E userRoles \in CallerRoleInputs, dbOk \in BOOLEAN :
       \/ \E permission \in PermInputs :
            \/ CallHasPermission(userRoles, permission, dbOk)
            \/ CallAuthorizationServiceHasPermission(userRoles, permission,
                                                     dbOk)
       \/ \E permissions \in RequiredPermInputs :
            \/ CallHasAnyPermission(userRoles, permissions, dbOk)
            \/ CallHasAllPermissions(userRoles, permissions, dbOk)
  \/ \E userRoles \in CallerRoleInputs :
       \/ \E role \in RoleNameInputs : CallHasRole(userRoles, role)
       \/ \E roles \in RequiredRoleInputs : CallHasAnyRole(userRoles, roles)
  \/ \E roles \in RequiredRoleInputs : CallGetPermissionsForRoles(roles)
  \/ CallReturn

SpecEngine == InitEngine /\ [][NextEngine]_vars

GateRoleInputs == {"admin"}
GatePermInputs == {<<>>, <<"user:read", "user:delete", "user:list">>}

InitGate ==
  /\ roleStore = <<>>
  /\ lastCall = Undefined
  /\ users = [id \in UserIds |-> Undefined]
  /\ nextId = 0
  /\ env \in {Env(Undefined), Env(Some(AccessSecret))}
  /\ req = NoRequest
  /\ NoSessions

NextGate ==
  \/ \E name \in GateRoleInputs, permissions \in GatePermInputs :
       \/ CreateRole(name, permissions)
       \/ UpdateRolePermissions(name, permissions)
       \/ AddPermissionsToRole(name, permissions)
       \/ RemovePermissionsFromRole(name, permissions)
  \/ \E name \in GateRoleInputs : DeleteRole(name)
  \/ \E email \in EmailInputs, roles \in UserRoleInputs : Register(email, roles)
  \/ \E id \in UserIds : DeleteUser(id)
  \/ \E route \in RouteIds, authorization \in AuthorizationInputs :
       \E params \in ParamInputs(route) :
         NewRequest(route, authorization, params)
  \/ \E dbOk \in BOOLEAN : GuardStep(dbOk)
  \/ HandlerStep
  \/ EndRequest

SpecGate == InitGate /\ [][NextGate]_vars

(***************************************************************************)
(* Registration, step by step: the existence check and the create are two  *)
(* awaits, and other calls run between them.                               *)
(***************************************************************************)
MESSAGE_EMAIL_USERNAME_PASSWORD_REQUIRED == "Email, password, and username are required"
MESSAGE_VALIDATION_FAILED == "User validation failed"

Registration(email, roles) == [email |-> email, roles |-> roles]

\* /^[^\s@]+@[^\s@]+\.[^\s@]+$/ on the addresses used here
EmailRegexTest(email) == email # " b@x.io "

\* the enum validator of UserSchema.roles, applied to every element
RolesValidate(roles) == \A i \in 1..Len(roles) : roles[i] \in Role

\* the checks have passed, the create is still to come
Checked == Success(Undefined, Undefined, Undefined)

\* AuthService.register up to the existence check
AuthService_registerCheck(db, email) ==
  IF ~IsDefined(email)
  THEN Failure(HTTP_BAD_REQUEST, MESSAGE_EMAIL_USERNAME_PASSWORD_REQUIRED)
  ELSE IF ~EmailRegexTest(ValueOf(email))
  THEN Failure(HTTP_BAD_REQUEST, MESSAGE_INVALID_EMAIL_FORMAT)
  ELSE IF IsDefined(FindByEmail(db, NormalizeEmail(ValueOf(email))))
  THEN Failure(HTTP_BAD_REQUEST, MESSAGE_USER_ALREADY_EXISTS)
  ELSE Checked

\* User.create(document): schema validation, then the insert under the
\* unique index on email
UserRepository_create(db, id, document) ==
  IF ~RolesValidate(document.roles)
  THEN RawError(MESSAGE_VALIDATION_FAILED)
  ELSE IF IsDefined(FindByEmail(db, document.email))
  THEN RawError(MESSAGE_DUPLICATE_KEY)
  ELSE Success(Some(id), Undefined, Undefined)

RegisterEmailInputs ==
  {Undefined, Some("a@x.io"), Some("A@x.io"), Some("b@x.io"), Some(" b@x.io ")}
RegisterRoleInputs ==
  {Undefined, Some(<<>>), Some(<<"admin">>), Some(<<"root">>)}

ParkedRegistrations == {c \in Callers : Parked(c, "register")}

\* register, lines 311-358
RegisterBegin(c, email, roles) ==
  /\ SessionIdle
  /\ LowestFree(c)
  /\ nextId + Cardinality(ParkedRegistrations) < MaxUsers
  /\ LET checked == AuthService_registerCheck(users, email)
     IN IF checked.ok
        THEN /\ pending' = [pending EXCEPT ![c] =
                  Some(Op("register", Registration(email, roles), checked))]
             /\ UNCHANGED lastOp
        ELSE /\ lastOp' = Some(Op("register", Registration(email, roles),
                                  checked))
             /\ UNCHANGED pending
  /\ UNCHANGED <<authentication, clock, issued>>
  /\ UNCHANGED <<roleStore, lastCall, users, nextId, env, req>>

\* register, lines 360-385
RegisterCreate(c) ==
  /\ SessionIdle
  /\ Parked(c, "register")
  /\ LET call == ValueOf(pending[c])
         id == nextId + 1
         document == UserDoc(id, NormalizeEmail(ValueOf(call.arg.email)),
                             RegisterRoles(call.arg.roles))
         created == UserRepository_create(users, id, document)
     IN /\ IF created.ok
           THEN /\ users' = [users EXCEPT ![id] = Some(document)]
                /\ authentication' = [authentication EXCEPT ![id] =
                     Some(AuthenticationDoc(id, RegisteredPassword))]
                /\ nextId' = id
           ELSE UNCHANGED <<users, authentication, nextId>>
        /\ lastOp' = Some([call EXCEPT !.outcome = created])
  /\ pending' = [pending EXCEPT ![c] = Undefined]
  /\ UNCHANGED <<clock, issued>>
  /\ UNCHANGED <<roleStore, lastCall, env, req>>

\* the roles collection after seedRoles
SeededStore ==
  << RoleDoc("super_admin",
             <<"user:create", "user:read", "user:update", "user:delete",
               "user:list", "role:create", "role:read", "role:update",
               "role:delete", "role:list", "role:assign",
               "permission:create", "permission:read", "permission:update",
               "permission:delete", "permission:list", "permission:assign",
               "self:read", "self:update", "self:delete">>, TRUE),
     RoleDoc("admin",
             <<"user:create", "user:read", "user:update", "user:delete",
               "user:list", "role:read", "role:list", "self:read",
               "self:update">>, TRUE),
     RoleDoc("manager",
             <<"user:read", "user:update", "user:list", "self:read",
               "self:update">>, TRUE),
     RoleDoc("user", <<"self:read", "self:update">>, TRUE),
     RoleDoc("guest", <<"self:read">>, TRUE) >>

RegisterSignInInputs == {Some("a@x.io"), Some("b@x.io")}
\* the access tokens handed out by sign-in, as bearer credentials
BearerInputs ==
  {Some(Header("Bearer", Some(i.token))) : i \in {j \in issued : j.kind = "access"}}

InitRegister ==
  /\ roleStore \in {<<>>, SeededStore}
  /\ lastCall = Undefined
  /\ users = [id \in UserIds |-> Undefined]
  /\ nextId = 0
  /\ env = Env(Some(AccessSecret))
  /\ req = NoRequest
  /\ NoSessions

NextRegister ==
  \/ \E c \in Callers :
       \/ \E email \in RegisterEmailInputs, roles \in RegisterRoleInputs :
            RegisterBegin(c, email, roles)
       \/ RegisterCreate(c)
       \/ \E email \in RegisterSignInInputs :
            SignInBegin(c, email, Some(RegisteredPassword))
       \/ SignInSave(c)
  \/ OpReturn
  \/ \E authorization \in BearerInputs : SessionRequest(2, authorization)
  \/ GuardStep(TRUE)
  \/ HandlerStep
  \/ EndRequest

SpecRegister == InitRegister /\ [][NextRegister]_vars

SessionEmailInputs == {"a@x.io", "b@x.io"}

InitSession ==
  /\ roleStore = <<>>
  /\ lastCall = Undefined
  /\ users = [id \in UserIds |-> Undefined]
  /\ nextId = 0
  /\ env \in {EnvOf(Some(AccessSecret), Some(RefreshSecret)),
              EnvOf(Some(AccessSecret), Some(AccessSecret))}
  /\ req = NoRequest
  /\ NoSessions

NextSession ==
  \/ \E email \in SessionEmailInputs : lastOp = Undefined /\ Register(email, Undefined)
  \/ \E c \in Callers :
       \/ \E email \in SignInEmailInputs, password \in SignInPasswordInputs :
            SignInBegin(c, email, password)
       \/ SignInSave(c)
       \/ \E token \in SignOutTokenInputs : SignOutBegin(c, token)
       \/ SignOutSave(c)
  \/ \E token \in SessionTokenInputs : TokenRefresh(token)
  \/ Tick
  \/ OpReturn
  \/ \E token \in SessionTokenInputs :
       SessionRequest(1, IF IsDefined(token)
                         THEN Some(Header("Bearer", token))
                         ELSE Undefined)
  \/ GuardStep(TRUE)
  \/ HandlerStep
  \/ EndRequest

SpecSession == InitSession /\ [][NextSession]_vars

(***************************************************************************)
(* Role administration and the seeder.                                     *)
(***************************************************************************)
\* rolesData, in the order seedRoles walks it
RolesData == <<"super_admin", "admin", "manager", "user", "guest">>

\* rolePermissionsMap.find((rp) => rp.role === roleData.name).permissions
RolePermissions(name) == SeededStore[DocIndex(SeededStore, name)].permissions

\* a seeder step that also sets isActive back to true on an existing role
SeedRoleReactivating(store, name) ==
  IF HasDoc(store, name)
  THEN [store EXCEPT ![DocIndex(store, name)] =
          RoleDoc(name, RolePermissions(name), TRUE)]
  ELSE RepoCreate(store, name, RolePermissions(name))

\* a seeder step that leaves the permissions of an existing role alone
SeedRoleCreateOnly(store, name) ==
  IF HasDoc(store, name)
  THEN store
  ELSE RepoCreate(store, name, RolePermissions(name))

\* one turn of the loop of seedRoles: findOne({ name }), then create, or set
\* permissions and save
SeedRole(store, name) ==
  IF HasDoc(store, name)
  THEN RepoUpdatePermissions(store, name, RolePermissions(name))
  ELSE RepoCreate(store, name, RolePermissions(name))

RECURSIVE SeedRolesFrom(_, _)
SeedRolesFrom(store, names) ==
  IF names = <<>> THEN store
  ELSE SeedRolesFrom(SeedRole(store, Head(names)), Tail(names))

Seeded == Success(Undefined, Undefined, Undefined)

\* seedRoles, run as a script
SeedRoles ==
  /\ Idle
  /\ lastOp = Undefined
  /\ roleStore' = SeedRolesFrom(roleStore, RolesData)
  /\ lastOp' = Some(Op("seedRoles", Undefined, Seeded))
  /\ UNCHANGED <<authentication, clock, issued, pending>>
  /\ UNCHANGED <<lastCall, users, nextId, env, req>>

\* permission lists as a client sends them: any order, repeats included
RoleListInputs == SeqsUpTo(PermInputs, MaxListLen)

NextRoles ==
  \/ \E name \in StoreRoleInputs, permissions \in RoleListInputs :
       \/ CreateRole(name, permissions)
       \/ UpdateRolePermissions(name, permissions)
       \/ AddPermissionsToRole(name, permissions)
       \/ RemovePermissionsFromRole(name, permissions)
  \/ \E name \in StoreRoleInputs : DeleteRole(name)
  \/ SeedRoles
  \/ OpReturn

SpecRoles == InitEngine /\ [][NextRoles]_vars

(***************************************************************************)
(* Accounts that come and go: the session calls together with deleteUser.  *)
(***************************************************************************)
InitAccount ==
  /\ roleStore = <<>>
  /\ lastCall = Undefined
  /\ users = [id \in UserIds |-> Undefined]
  /\ nextId = 0
  /\ env = EnvOf(Some(AccessSecret), Some(RefreshSecret))
  /\ req = NoRequest
  /\ NoSessions

AccountPasswordInputs == {Some(password) : password \in PasswordInputs}

NextAccount ==
  \/ \E email \in SessionEmailInputs :
       lastOp = Undefined /\ Register(email, Undefined)
  \/ \E id \in UserIds : lastOp = Undefined /\ DeleteUser(id)
  \/ \E c \in Callers :
       \/ \E email \in SessionEmailInputs, password \in AccountPasswordInputs :
            SignInBegin(c, Some(email), password)
       \/ SignInSave(c)
       \/ \E token \in SignOutTokenInputs : SignOutBegin(c, token)
       \/ SignOutSave(c)
  \/ \E token \in SessionTokenInputs : TokenRefresh(token)
  \/ OpReturn
  \/ \E token \in SessionTokenInputs :
       SessionRequest(1, IF IsDefined(token)
                         THEN Some(Header("Bearer", token))
                         ELSE Undefined)
  \/ GuardStep(TRUE)
  \/ HandlerStep
  \/ EndRequest

SpecAccount == InitAccount /\ [][NextAccount]_vars

(***************************************************************************)
(* The auth controllers.  Each is an async function registered on its      *)
(* route as it is, with no try/catch inside and no catchAsync around it    *)
(* (auth.route.ts 53-144).  When the awaited service call throws, the      *)
(* promise of the handler is rejected; whether the router passes the       *)
(* rejection to globalErrorHandler or drops it depends on the router: the  *)
(* controller itself calls neither next nor res.                           *)
(***************************************************************************)
MESSAGE_REFRESH_TOKEN_NOT_FOUND == "Refresh token not found."
MESSAGE_SOMETHING_WENT_WRONG == "Something went wrong!"

AuthRoutes ==
  <<"POST /auth/signin", "POST /auth/signup", "POST /auth/signout",
    "POST /auth/refresh">>
AuthRouteIds == (Len(Routes) + 1)..(Len(Routes) + Len(AuthRoutes))
SignInRoute == Len(Routes) + 1
SignUpRoute == Len(Routes) + 2
SignOutRoute == Len(Routes) + 3
RefreshRoute == Len(Routes) + 4

\* res.status(status).json(...)
Responded(route, status, message) ==
  [NoRequest EXCEPT !.phase = "done", !.route = route, !.handlerRan = TRUE,
                    !.responses = <<[status |-> status, message |-> message]>>]

\* sendErrorProd: the message of an operational error, a fixed one otherwise
GlobalErrorHandler(route, error) ==
  [Responded(route, error.status,
             IF error.raw THEN MESSAGE_SOMETHING_WENT_WRONG ELSE error.message)
     EXCEPT !.caught = TRUE]

\* the rejected promise of a handler: answered by globalErrorHandler when
\* the router forwards it, left without any response when it does not
Rejected(route, error, forwarded) ==
  IF forwarded
  THEN GlobalErrorHandler(route, error)
  ELSE [NoRequest EXCEPT !.phase = "unhandled", !.route = route,
                         !.handlerRan = TRUE]

\* AuthController.signIn
AuthController_signIn(email, password, forwarded) ==
  /\ SessionIdle
  /\ LET found == AuthService_authenticateFind(users, authentication, env,
                                               email, password, clock)
     IN IF ~IsDefined(email) \/ ~IsDefined(password)
        THEN /\ req' = Responded(SignInRoute, HTTP_BAD_REQUEST, MESSAGE_FORBIDDEN)
             /\ UNCHANGED <<authentication, issued>>
        ELSE IF found.ok
        THEN /\ authentication' =
                  [authentication EXCEPT ![ValueOf(found.userId)] =
                     Some([ValueOf(@) EXCEPT !.token = found.refreshToken])]
             /\ issued' = issued \cup
                  {IssuedAs("access", ValueOf(found.accessToken)),
                   IssuedAs("refresh", ValueOf(found.refreshToken))}
             /\ req' = Responded(SignInRoute, HTTP_OK, "")
        ELSE /\ req' = Rejected(SignInRoute, found, forwarded)
             /\ UNCHANGED <<authentication, issued>>
  /\ UNCHANGED <<clock, pending, lastOp>>
  /\ UNCHANGED <<roleStore, lastCall, users, nextId, env>>

\* AuthController.signUp
AuthController_signUp(email, roles, forwarded) ==
  /\ SessionIdle
  /\ nextId < MaxUsers
  /\ LET checked == AuthService_registerCheck(users, email)
         id == nextId + 1
         document == UserDoc(id, NormalizeEmail(ValueOf(email)),
                             RegisterRoles(roles))
         created == UserRepository_create(users, id, document)
     IN IF ~checked.ok
        THEN /\ req' = Rejected(SignUpRoute, checked, forwarded)
             /\ UNCHANGED <<users, authentication, nextId>>
        ELSE IF ~created.ok
        THEN /\ req' = Rejected(SignUpRoute, created, forwarded)
             /\ UNCHANGED <<users, authentication, nextId>>
        ELSE /\ users' = [users EXCEPT ![id] = Some(document)]
             /\ authentication' = [authentication EXCEPT ![id] =
                  Some(AuthenticationDoc(id, RegisteredPassword))]
             /\ nextId' = id
             /\ req' = Responded(SignUpRoute, HTTP_OK, "")
  /\ UNCHANGED <<clock, issued, pending, lastOp>>
  /\ UNCHANGED <<roleStore, lastCall, env>>

\* AuthController.signOut
AuthController_signOut(refreshToken, forwarded) ==
  /\ SessionIdle
  /\ LET found == AuthService_signOutFind(authentication, refreshToken)
     IN IF found.ok
        THEN /\ authentication' =
                  [authentication EXCEPT ![ValueOf(found.userId)] =
                     Some([ValueOf(@) EXCEPT !.token = Undefined])]
             /\ req' = Responded(SignOutRoute, HTTP_OK, "")
        ELSE /\ req' = Rejected(SignOutRoute, found, forwarded)
             /\ UNCHANGED authentication
  /\ UNCHANGED <<clock, issued, pending, lastOp>>
  /\ UNCHANGED <<roleStore, lastCall, users, nextId, env>>

\* AuthController.refreshToken
AuthController_refreshToken(incomingRefreshToken, forwarded) ==
  /\ SessionIdle
  /\ LET outcome == AuthService_tokenRefresh(authentication, env,
                                             incomingRefreshToken, clock)
     IN IF ~IsDefined(incomingRefreshToken)
        THEN req' = Responded(RefreshRoute, HTTP_UNAUTHORIZED,
                              MESSAGE_REFRESH_TOKEN_NOT_FOUND)
        ELSE IF outcome.ok
        THEN req' = Responded(RefreshRoute, HTTP_OK, "")
        ELSE req' = Rejected(RefreshRoute, outcome, forwarded)
  /\ UNCHANGED <<authentication, clock, issued, pending, lastOp>>
  /\ UNCHANGED <<roleStore, lastCall, users, nextId, env>>

\* nothing answers the request any more: the client gives up
Abandon ==
  /\ req.phase = "unhandled"
  /\ req' = NoRequest
  /\ UNCHANGED <<roleStore, lastCall, users, nextId, env>>
  /\ UNCHANGED sessionVars

SignUpRoleInputs == {Undefined, Some(<<"root">>)}

NextController ==
  \/ \E forwarded \in BOOLEAN :
       \/ \E email \in SignInEmailInputs, password \in SignInPasswordInputs :
            AuthController_signIn(email, password, forwarded)
       \/ \E email \in RegisterEmailInputs, roles \in SignUpRoleInputs :
            AuthController_signUp(email, roles, forwarded)
       \/ \E token \in SignOutTokenInputs :
            AuthController_signOut(token, forwarded)
       \/ \E token \in SessionTokenInputs :
            AuthController_refreshToken(token, forwarded)
  \/ \E token \in SessionTokenInputs :
       SessionRequest(1, IF IsDefined(token)
                         THEN Some(Header("Bearer", token))
                         ELSE Undefined)
  \/ \E dbOk \in BOOLEAN : GuardStep(dbOk)
  \/ HandlerStep
  \/ EndRequest
  \/ Abandon

SpecController == InitSession /\ [][NextController]_vars

(***************************************************************************)
(* Missing configuration: any of the two secrets may be unset.             *)
(***************************************************************************)
\* tokens a client can send whatever the configuration: signed earlier under
\* either secret, expired or not, or no token at all
ConfigTokenInputs ==
  {Undefined, Some(Garbage)}
    \cup {Some(PresentedAt(Sign(1, key, "1d", 0), expired)) :
            key \in {AccessSecret, RefreshSecret}, expired \in BOOLEAN}

InitConfig ==
  /\ roleStore = <<>>
  /\ lastCall = Undefined
  /\ users = [id \in UserIds |-> Undefined]
  /\ nextId = 0
  /\ env \in {EnvOf(secret, refreshSecret) :
                secret \in {Undefined, Some(AccessSecret)},
                refreshSecret \in {Undefined, Some(RefreshSecret)}}
  /\ req = NoRequest
  /\ NoSessions

NextConfig ==
  \/ \E email \in SessionEmailInputs :
       lastOp = Undefined /\ Register(email, Undefined)
  \/ \E token \in ConfigTokenInputs : TokenRefresh(token)
  \/ OpReturn
  \/ \E token \in ConfigTokenInputs :
       SessionRequest(1, IF IsDefined(token)
                         THEN Some(Header("Bearer", token))
                         ELSE Undefined)
  \/ \E dbOk \in BOOLEAN : GuardStep(dbOk)
  \/ HandlerStep
  \/ EndRequest

SpecConfig == InitConfig /\ [][NextConfig]_vars

(***************************************************************************)
(* Properties of the decision functions (SpecEngine).                      *)
(***************************************************************************)
TheCall == ValueOf(lastCall)
CalledOneOf(fns) == lastCall # Undefined /\ TheCall.fn \in fns
PermissionChecks == {"hasPermission", "hasAnyPermission", "hasAllPermissions"}
RoleChecks == {"hasRole", "hasAnyRole"}
CallerRoles == ValueOf(TheCall.userRoles)
CallerHasRoles ==
  IsDefined(TheCall.userRoles) /\ Len(ValueOf(TheCall.userRoles)) > 0
NoDuplicates(s) == \A i, j \in 1..Len(s) : s[i] = s[j] => i = j
ActivePermissionsOf(store, name) == ActivePermissionSet(store, <<name>>)

\* C1: with an empty or missing caller role list, hasPermission,
\* hasAnyPermission, hasAllPermissions, hasRole and hasAnyRole all return
\* granted = false, whatever the requirement, the role store and the state of
\* the database connection.
C1Theorem ==
  (CalledOneOf(PermissionChecks \cup RoleChecks) /\ ~CallerHasRoles)
    => (~TheCall.result.granted /\ ~TheCall.result.threw)

\* hasAllPermissions with no roles and nothing required, the database down:
\* denied for want of roles
C1Witness ==
  /\ CalledOneOf({"hasAllPermissions"})
  /\ TheCall.userRoles = Some(<<>>)
  /\ TheCall.many = <<>>
  /\ ~TheCall.dbOk
  /\ TheCall.result = Denied(MESSAGE_NO_ROLES_ASSIGNED)

\* C2: for a non-empty caller role list whose lookup resolves, with S the
\* union of the permissions of the active roles named in the list,
\* hasPermission grants iff p is in S, hasAnyPermission iff P meets S,
\* hasAllPermissions iff P is included in S, and every denial carries the
\* insufficient-permissions reason.
C2Theorem ==
  (CalledOneOf(PermissionChecks) /\ CallerHasRoles /\ TheCall.dbOk)
    => LET S == ActivePermissionSet(roleStore, CallerRoles)
           result == TheCall.result
       IN /\ ~result.threw
          /\ TheCall.fn = "hasPermission" => (result.granted <=> TheCall.one \in S)
          /\ TheCall.fn = "hasAnyPermission"
               => (result.granted <=> Elems(TheCall.many) \cap S # {})
          /\ TheCall.fn = "hasAllPermissions"
               => (result.granted <=> Elems(TheCall.many) \subseteq S)
          /\ ~result.granted
               => result.reason = MESSAGE_INSUFFICIENT_PERMISSIONS

\* hasAllPermissions granted on two permissions that only the union of the
\* caller's two roles carries
C2Witness ==
  /\ CalledOneOf({"hasAllPermissions"})
  /\ CallerHasRoles
  /\ TheCall.result.granted
  /\ \A i \in 1..Len(CallerRoles) :
       ~(Elems(TheCall.many)
           \subseteq ActivePermissionsOf(roleStore, CallerRoles[i]))

NoActiveRoleMatches ==
  \A i \in 1..Len(roleStore) :
    roleStore[i].name \in Elems(CallerRoles) => ~roleStore[i].isActive

C9Theorem ==
  CalledOneOf({"getPermissionsForRoles"})
    => /\ Elems(TheCall.perms) =
            UNION {Elems(GetPermissionsForRoles(roleStore, <<CallerRoles[i]>>)) :
                     i \in 1..Len(CallerRoles)}
       /\ \A i \in 1..Len(CallerRoles) :
            Elems(GetPermissionsForRoles(roleStore,
                                         <<CallerRoles[i], CallerRoles[i]>>))
              = Elems(GetPermissionsForRoles(roleStore, <<CallerRoles[i]>>))
       /\ NoDuplicates(TheCall.perms)

\* two different active roles that share a permission, resolved together
C9Witness ==
  /\ CalledOneOf({"getPermissionsForRoles"})
  /\ Len(CallerRoles) = 2
  /\ CallerRoles[1] # CallerRoles[2]
  /\ ActivePermissionsOf(roleStore, CallerRoles[1])
       \cap ActivePermissionsOf(roleStore, CallerRoles[2]) # {}
  /\ ActivePermissionsOf(roleStore, CallerRoles[1])
       # ActivePermissionsOf(roleStore, CallerRoles[2])
  /\ Len(TheCall.perms) = 2

\* C10: hasRole grants iff the role is in the caller's list and hasAnyRole iff
\* one of the required roles is; the role store has no part in the result.
C10Theorem ==
  CalledOneOf(RoleChecks)
    => /\ ~TheCall.result.threw
       /\ TheCall.fn = "hasRole"
            => (TheCall.result.granted
                  <=> (CallerHasRoles /\ TheCall.one \in Elems(CallerRoles)))
       /\ TheCall.fn = "hasAnyRole"
            => (TheCall.result.granted
                  <=> (CallerHasRoles
                         /\ Elems(TheCall.many) \cap Elems(CallerRoles) # {}))

\* hasRole granted on a role that has been soft-deleted
C10Witness ==
  /\ CalledOneOf({"hasRole"})
  /\ TheCall.result.granted
  /\ \E i \in 1..Len(roleStore) :
       roleStore[i].name = TheCall.one /\ ~roleStore[i].isActive

(***************************************************************************)
(* Properties of the request gate (SpecGate).                              *)
(***************************************************************************)
\* the step in which the guard at req.step, one of kinds, runs
GuardStepOf(kinds) ==
  /\ req.phase = "inflight"
  /\ req.step <= Len(Chain(req))
  /\ Chain(req)[req.step].kind \in kinds
  /\ req'.ran = Append(req.ran, req.step)

TheGuard == Chain(req)[req.step]
CalledNext == req'.passed = Append(req.passed, req.step)
SentOne == Len(req'.responses) = Len(req.responses) + 1
Sent == req'.responses[Len(req'.responses)]
SentError(status, message) ==
  SentOne /\ Sent = [status |-> status, message |-> message]
Denied403 ==
  ~CalledNext /\ SentOne /\ Sent.status = 403 /\ req'.phase = "done"

AttachedRoles == ValueOf(req.user).roles
AttachedHolds(permission) ==
  permission \in ActivePermissionSet(roleStore, AttachedRoles)
IsTheOwner == req.params = Some(ValueOf(req.user).id)

PresentedToken == ExtractToken(req.authorization)
SecretSet == IsDefined(env.JWT_SECRET)
TokenVerifies ==
  /\ IsDefined(PresentedToken)
  /\ SecretSet
  /\ ValueOf(PresentedToken).wellFormed
  /\ ValueOf(PresentedToken).key = ValueOf(env.JWT_SECRET)
  /\ ~ValueOf(PresentedToken).expired
SubjectId == ValueOf(PresentedToken).id
SubjectExists == SubjectId \in UserIds /\ IsDefined(users[SubjectId])
AttachedSubject ==
  /\ req'.user = users[SubjectId]
  /\ ValueOf(req'.user).id = SubjectId

\* C3 (as stated): isAuthenticated calls next only for a present bearer
\* token that verifies under the configured access secret and whose subject
\* is an existing user, attaching exactly that user; in every other case it
\* attaches nothing, does not call next and answers Unauthorized (401), or
\* the configuration error when the secret is unset.
C3Original ==
  [][GuardStepOf({"isAuthenticated"}) =>
       IF CalledNext
       THEN TokenVerifies /\ SubjectExists /\ AttachedSubject
       ELSE /\ req'.user = Undefined
            /\ SentOne
            /\ \/ Sent.status = 401
               \/ ~SecretSet /\ Sent = [status |-> 400,
                                        message |-> MESSAGE_SERVER_CONFIG_ERROR]]_vars

\* C3 (amended): isAuthenticated calls next exactly when the bearer token is
\* present, verifies under the configured access secret, and the lookup of
\* its subject returns a user, which is the one attached.  Otherwise it
\* attaches nothing, does not call next and sends one response: 401 for a
\* missing token, an unverifiable token or an unknown subject, 400 (server
\* configuration) when the secret is unset, and 400 (authentication failed)
\* when the user lookup itself fails.
C3Theorem ==
  [][GuardStepOf({"isAuthenticated"}) =>
       /\ CalledNext <=> (TokenVerifies /\ SubjectExists /\ ~req'.caught)
       /\ CalledNext => AttachedSubject /\ ~SentOne
       /\ ~CalledNext =>
            /\ req'.user = Undefined
            /\ req'.phase = "done"
            /\ IF ~IsDefined(PresentedToken)
               THEN SentError(401, MESSAGE_UNAUTHORIZED)
               ELSE IF ~SecretSet
               THEN SentError(400, MESSAGE_SERVER_CONFIG_ERROR)
               ELSE IF ~TokenVerifies
               THEN SentError(401, MESSAGE_INVALID_TOKEN)
               ELSE IF req'.caught
               THEN SentError(400, MESSAGE_AUTHENTICATION_FAILED)
               ELSE SentError(401, MESSAGE_UNAUTHORIZED)]_vars

\* a verified token of an existing user was answered 400 because the user
\* lookup failed, while another user's token is accepted in other requests
C3Witness ==
  /\ req.phase = "done"
  /\ req.ran = <<1>>
  /\ req.passed = <<>>
  /\ req.caught
  /\ req.user = Undefined
  /\ req.responses = <<[status |-> 400,
                        message |-> MESSAGE_AUTHENTICATION_FAILED]>>
  /\ TokenVerifies
  /\ SubjectExists

UpTo(n) == [i \in 1..n |-> i]

\* C4: the handler runs only after every guard of the chain called next, in
\* declared order; a guard that rejects sends exactly one error response,
\* ends the request, and no later guard and no handler runs.
C4Theorem ==
  req.phase # "idle" =>
    /\ req.ran = UpTo(Len(req.ran))
    /\ req.passed = UpTo(Len(req.passed))
    /\ Len(req.ran) <= Len(Chain(req))
    /\ Len(req.passed) <= Len(req.ran)
    /\ Len(req.ran) <= Len(req.passed) + 1
    /\ Len(req.responses) <= 1
    /\ req.phase = "inflight" =>
         req.responses = <<>> /\ req.ran = req.passed /\ ~req.handlerRan
    /\ req.handlerRan =>
         /\ req.passed = UpTo(Len(Chain(req)))
         /\ req.responses = <<[status |-> 200, message |-> ""]>>
    /\ Len(req.ran) = Len(req.passed) + 1 =>
         /\ req.phase = "done"
         /\ ~req.handlerRan
         /\ Len(req.responses) = 1
         /\ req.responses[1].status >= 400

\* DELETE /users/:id rejected by its second guard: the third guard and the
\* handler never ran
C4Witness ==
  /\ req.phase = "done"
  /\ Routes[req.route].name = "DELETE /users/:id"
  /\ req.ran = <<1, 2>>
  /\ req.passed = <<1>>
  /\ ~req.handlerRan
  /\ Len(req.responses) = 1
  /\ req.responses[1].status = 403

\* C5: every permission guard decides on the role store as it is when the
\* guard runs: if the attached user's active roles do not carry the
\* required permission at that moment, the guard denies with 403, whatever
\* the store held earlier in the request.
C5Theorem ==
  [][(/\ GuardStepOf({"requirePermission", "requireAnyPermission",
                      "requireAllPermissions",
                      "requireOwnershipOrPermission"})
      /\ IsDefined(req.user)) =>
       CASE TheGuard.kind = "requirePermission" ->
              ~AttachedHolds(TheGuard.one) => Denied403
         [] TheGuard.kind = "requireAnyPermission" ->
              (\A p \in Elems(TheGuard.many) : ~AttachedHolds(p)) => Denied403
         [] TheGuard.kind = "requireAllPermissions" ->
              (\E p \in Elems(TheGuard.many) : ~AttachedHolds(p)) => Denied403
         [] TheGuard.kind = "requireOwnershipOrPermission" ->
              (~IsTheOwner /\ ~AttachedHolds(TheGuard.one)) => Denied403]_vars

\* a permission the user's active roles carried when the request was
\* authenticated was revoked before requirePermission ran, which denied
C5Witness ==
  /\ req.phase = "done"
  /\ Len(req.ran) = Len(req.passed) + 1
  /\ Chain(req)[Len(req.ran)].kind = "requirePermission"
  /\ Chain(req)[Len(req.ran)].one \in req.permsAtAuth
  /\ Chain(req)[Len(req.ran)].one
       \notin ActivePermissionSet(roleStore, ValueOf(req.user).roles)
  /\ ~req.caught
  /\ req.responses[1].status = 403

\* C6: requireOwnershipOrPermission(param, P) calls next iff the attached
\* user's id equals the path parameter or hasPermission(roles, P) grants
\* (P is carried by the user's active roles and the lookup resolved);
\* otherwise it answers 403 and does not call next.
C6Theorem ==
  [][(GuardStepOf({"requireOwnershipOrPermission"}) /\ IsDefined(req.user)) =>
       /\ CalledNext <=>
            \/ IsTheOwner
            \/ AttachedHolds(TheGuard.one) /\ ~req'.caught
       /\ ~CalledNext =>
            SentError(403, MESSAGE_INSUFFICIENT_PERMISSIONS)
              /\ req'.phase = "done"]_vars

\* an owner without user:read passed GET /users/:id
C6Witness ==
  /\ Routes[req.route].name = "GET /users/:id"
  /\ req.passed = <<1, 2>>
  /\ IsDefined(req.user)
  /\ IsTheOwner
  /\ ~AttachedHolds("user:read")

AuthorizationGuards ==
  {"requirePermission", "requireAnyPermission", "requireAllPermissions",
   "requireRole", "requireAnyRole", "requireOwnershipOrAdmin",
   "requireOwnershipOrPermission"}
OwnershipGuards == {"requireOwnershipOrAdmin", "requireOwnershipOrPermission"}
AttachedHasNoRoles == IsDefined(req.user) /\ AttachedRoles = <<>>

\* C7 (as stated): a user with an empty role list is denied by every
\* authorization guard, the two ownership guards included, for every path
\* parameter.
C7Original ==
  [][(GuardStepOf(AuthorizationGuards) /\ AttachedHasNoRoles) =>
       ~CalledNext]_vars

\* C7 (amended): a user with an empty role list is denied with 403 by
\* requirePermission, requireAnyPermission, requireAllPermissions,
\* requireRole and requireAnyRole for every requirement; the two ownership
\* guards deny such a user exactly when the path parameter is not the
\* user's own id.
C7Theorem ==
  [][(GuardStepOf(AuthorizationGuards) /\ AttachedHasNoRoles) =>
       /\ CalledNext <=> (TheGuard.kind \in OwnershipGuards /\ IsTheOwner)
       /\ ~CalledNext => Denied403]_vars

\* a user registered with roles [] was denied by a permission guard
C7Witness ==
  /\ req.phase = "done"
  /\ AttachedHasNoRoles
  /\ Len(req.ran) = 2
  /\ req.passed = <<1>>
  /\ Chain(req)[2].kind \in AuthorizationGuards \ OwnershipGuards
  /\ req.responses = <<[status |-> 403,
                        message |-> MESSAGE_NO_ROLES_ASSIGNED]>>

(***************************************************************************)
(* Failure of the role store lookup (SpecEngine).                          *)
(***************************************************************************)
\* C11: when the lookup of the caller's roles fails, hasPermission,
\* hasAnyPermission and hasAllPermissions (of AuthService and of
\* AuthorizationService) do not throw: they return granted = false with the
\* insufficient-permissions reason.
C11Claim ==
  (/\ CalledOneOf(PermissionChecks \cup {"AuthorizationService.hasPermission"})
   /\ CallerHasRoles
   /\ ~TheCall.dbOk)
    => TheCall.result = Denied(MESSAGE_INSUFFICIENT_PERMISSIONS)

\* what the code does instead: AuthService throws, AuthorizationService
\* denies with the permission-not-found reason; neither grants
C11Observed ==
  (/\ CalledOneOf(PermissionChecks \cup {"AuthorizationService.hasPermission"})
   /\ CallerHasRoles
   /\ ~TheCall.dbOk)
    => IF TheCall.fn \in PermissionChecks
       THEN TheCall.result = Thrown
       ELSE TheCall.result = Denied(MESSAGE_PERMISSION_NOT_FOUND)

(***************************************************************************)
(* Properties of the sessions (SpecSession).                               *)
(***************************************************************************)
TheOp == ValueOf(lastOp)
Returned(name) == IsDefined(lastOp) /\ TheOp.op = name
Returns(name) == lastOp = Undefined /\ IsDefined(lastOp') /\ ValueOf(lastOp').op = name
TheOutcome == ValueOf(lastOp').outcome
TheArg == ValueOf(lastOp').arg
IssuedRefresh(token) == IssuedAs("refresh", TokenString(token)) \in issued
IssuedAccess(token) == IssuedAs("access", TokenString(token)) \in issued
StoredToken(id) == ValueOf(authentication[id]).token
SecretsDistinct == env.JWT_SECRET # env.JWT_REFRESH_SECRET

\* C12: a token issued by generateRefreshToken never passes isAuthenticated,
\* and a token issued by generateAccessToken is never accepted by
\* tokenRefresh, whatever the two configured secrets are.
C12Claim ==
  [][/\ (/\ GuardStepOf({"isAuthenticated"})
         /\ IsDefined(PresentedToken)
         /\ IssuedRefresh(ValueOf(PresentedToken))) => ~CalledNext
     /\ (/\ Returns("tokenRefresh")
         /\ IsDefined(TheArg)
         /\ IssuedAccess(ValueOf(TheArg))) => ~TheOutcome.ok]_vars

\* what the code does: the refresh token passes isAuthenticated exactly when
\* the two secrets are the same string and the token has not expired; the
\* access token is never accepted by tokenRefresh
C12Observed ==
  [][/\ (/\ GuardStepOf({"isAuthenticated"})
         /\ IsDefined(PresentedToken)
         /\ IssuedRefresh(ValueOf(PresentedToken)))
           => (CalledNext <=> (~SecretsDistinct
                                /\ ~ValueOf(PresentedToken).expired))
     /\ (/\ Returns("tokenRefresh")
         /\ IsDefined(TheArg)
         /\ IssuedAccess(ValueOf(TheArg))) => ~TheOutcome.ok]_vars

RegisteredIds == {id \in UserIds : IsDefined(authentication[id])}
RefreshTokensOf(id) ==
  {i.token : i \in {j \in issued : j.kind = "refresh" /\ j.token.id = id}}
RejectedEverywhere(token) ==
  /\ \A expired \in BOOLEAN :
       ~AuthService_tokenRefresh(authentication, env,
                                 Some(PresentedAt(token, expired)), clock).ok
  /\ ~AuthService_signOutFind(authentication, Some(token)).ok
OneLiveToken ==
  \A id \in RegisteredIds :
    /\ IsDefined(StoredToken(id)) => ValueOf(StoredToken(id)) \in RefreshTokensOf(id)
    /\ \A token \in RefreshTokensOf(id) :
         Some(token) # StoredToken(id) => RejectedEverywhere(token)
SignInReturns == Returns("authenticate") /\ TheOutcome.ok

\* C13: each user has at most one live refresh token: a successful sign-in
\* leaves its own refresh token stored (the last write wins), the stored
\* token is always one of the refresh tokens issued to that user, and every
\* other refresh token issued to the user is rejected by tokenRefresh and by
\* signOut, whatever the interleaving of the sign-ins.
C13Theorem ==
  [][/\ SignInReturns =>
          authentication'[ValueOf(TheOutcome.userId)] =
            Some([ValueOf(authentication[ValueOf(TheOutcome.userId)])
                    EXCEPT !.token = TheOutcome.refreshToken])
     /\ OneLiveToken']_vars

\* two sign-ins of one user interleaved: the token issued first was written
\* last and is the stored one, the token issued later is dead
C13Witness ==
  /\ Returned("authenticate")
  /\ TheOp.outcome.ok
  /\ LET id == ValueOf(TheOp.outcome.userId)
     IN /\ StoredToken(id) = TheOp.outcome.refreshToken
        /\ ValueOf(StoredToken(id)).iat = 0
        /\ \E token \in RefreshTokensOf(id) :
             token.iat = 1 /\ RejectedEverywhere(token)

NotFound == Failure(HTTP_NOT_FOUND, MESSAGE_NOT_FOUND)
InvalidToken == Failure(HTTP_UNAUTHORIZED, MESSAGE_INVALID_EXPIRED_REFRESH_TOKEN)
SignOutReturns == Returns("signOut") /\ IsDefined(TheArg)
\* tokenRefresh(token) after the step, the token presented before or after exp
RefreshAfter(token, expired) ==
  AuthService_tokenRefresh(authentication', env', Some(PresentedAt(token, expired)),
                           clock')

RefreshReturns == Returns("tokenRefresh") /\ IsDefined(TheArg)
VerifiesAsRefresh(token) ==
  /\ token.wellFormed
  /\ IsDefined(env.JWT_REFRESH_SECRET)
  /\ token.key = ValueOf(env.JWT_REFRESH_SECRET)
  /\ ~token.expired
StoredOnSubject(token) ==
  /\ token.id \in RegisteredIds
  /\ StoredToken(token.id) = Some(TokenString(token))
StoredOnNobody(token) ==
  \A id \in RegisteredIds : StoredToken(id) # Some(TokenString(token))

\* C15: tokenRefresh succeeds, returning an access token, exactly when the
\* presented token verifies under the refresh secret and is the string stored
\* on the user that is its subject; a token that verifies but is stored on no
\* user is rejected with NotFound.
C15Theorem ==
  [][RefreshReturns =>
       LET t == ValueOf(TheArg)
       IN /\ TheOutcome.ok <=> (VerifiesAsRefresh(t) /\ StoredOnSubject(t))
          /\ TheOutcome.ok => /\ IsDefined(TheOutcome.accessToken)
                              /\ TheOutcome.userId = Some(t.id)
          /\ (VerifiesAsRefresh(t) /\ StoredOnNobody(t))
               => TheOutcome = NotFound]_vars

\* a refresh token replaced by a later sign-in of its user has been
\* presented, unexpired, and rejected with NotFound
C15Witness ==
  /\ Returned("tokenRefresh")
  /\ IsDefined(TheOp.arg)
  /\ TheOp.outcome = NotFound
  /\ IssuedRefresh(ValueOf(TheOp.arg))
  /\ VerifiesAsRefresh(ValueOf(TheOp.arg))
  /\ IsDefined(StoredToken(ValueOf(TheOp.arg).id))
  /\ StoredOnNobody(ValueOf(TheOp.arg))

\* C16: a successful tokenRefresh writes nothing; its result holds an access
\* token for the user of the refresh token and no refresh token; and the
\* same refresh token, still stored and unexpired, refreshes again.
C16Theorem ==
  [][(RefreshReturns /\ TheOutcome.ok) =>
       LET t == ValueOf(TheArg)
       IN /\ UNCHANGED <<authentication, users, nextId, roleStore, issued,
                         pending, clock, env>>
          /\ StoredToken(t.id) = Some(TokenString(t))
          /\ TheOutcome.accessToken = Some(GenerateAccessToken(env, t.id, clock))
          /\ ValueOf(TheOutcome.accessToken).id = t.id
          /\ TheOutcome.refreshToken = Undefined
          /\ RefreshAfter(t, FALSE) = TheOutcome]_vars

\* a refresh token issued a second earlier has been refreshed: the access
\* token returned is a new one and the stored token is still the old one
C16Witness ==
  /\ Returned("tokenRefresh")
  /\ TheOp.outcome.ok
  /\ ValueOf(TheOp.arg).iat = 0
  /\ ValueOf(TheOp.outcome.accessToken).iat = 1
  /\ ~IssuedAccess(ValueOf(TheOp.outcome.accessToken))
  /\ StoredToken(ValueOf(TheOp.arg).id) = TheOp.arg

InvalidCredentials == Failure(HTTP_UNAUTHORIZED, MESSAGE_INVALID_CREDENTIALS)
Lowercased(email) == IF email = "A@x.io" THEN "a@x.io" ELSE email
Trimmed(email) == IF email = " b@x.io " THEN "b@x.io" ELSE email
UsersWithEmail(email) ==
  {id \in UserIds : IsDefined(users[id]) /\ ValueOf(users[id]).email = email}
AuthenticateReturns ==
  /\ Returns("authenticate")
  /\ IsDefined(TheArg.email)
  /\ IsDefined(TheArg.password)

\* C17: authenticate fails with the one InvalidCredentials outcome both when
\* no user has the lowercased, trimmed email and when the user exists but the
\* password is not the registered one, and in no other case; a failing
\* authenticate returns no token, issues none and writes nothing.
C17Theorem ==
  [][/\ AuthenticateReturns =>
          LET holders == UsersWithEmail(Trimmed(Lowercased(ValueOf(TheArg.email))))
              unknown == holders = {}
              wrong == holders # {} /\ ValueOf(TheArg.password) # RegisteredPassword
          IN /\ (unknown \/ wrong) <=> TheOutcome = InvalidCredentials
             /\ ~(unknown \/ wrong) <=> TheOutcome.ok
     /\ (Returns("authenticate") /\ ~TheOutcome.ok) =>
          /\ TheOutcome.accessToken = Undefined
          /\ TheOutcome.refreshToken = Undefined
          /\ UNCHANGED <<authentication, users, issued, pending>>]_vars

\* a signed-in user has been refused with a wrong password, under an email
\* that needs trimming, and is still signed in
C17Witness ==
  /\ Returned("authenticate")
  /\ TheOp.outcome = InvalidCredentials
  /\ TheOp.arg.email = Some(" b@x.io ")
  /\ \E id \in UsersWithEmail("b@x.io") : IsDefined(StoredToken(id))

(***************************************************************************)
(* Properties of registration (SpecRegister).                              *)
(***************************************************************************)
CreateReturns ==
  /\ Returns("register")
  /\ \E c \in Callers : Parked(c, "register") /\ pending'[c] = Undefined
SuppliedEmail == Trimmed(Lowercased(ValueOf(TheArg.email)))
EmailIsFree == UsersWithEmail(SuppliedEmail) = {}
SuppliedOrDefault ==
  IF IsDefined(TheArg.roles) THEN ValueOf(TheArg.roles) ELSE <<"user">>
NamesOfTheEnum == Elems(SuppliedOrDefault) \subseteq Role
StoredAsSupplied ==
  /\ TheOutcome.ok
  /\ nextId' = nextId + 1
  /\ users' = [users EXCEPT ![nextId'] =
                 Some(UserDoc(nextId', SuppliedEmail, SuppliedOrDefault))]
UserListDenied ==
  (/\ GuardStepOf({"requirePermission"})
   /\ req.route = 2
   /\ roleStore = SeededStore
   /\ AttachedRoles = <<"user">>) => Denied403

\* C18 (as stated): register stores roles = [user] when no list is supplied
\* and otherwise exactly the supplied list, whatever it holds; a user
\* registered without roles is denied by requirePermission(user:list) under
\* the seeded matrix.
C18Original ==
  [][/\ (CreateReturns /\ EmailIsFree) => StoredAsSupplied
     /\ UserListDenied]_vars

\* C18: register stores roles = [user] when no list is supplied and exactly
\* the supplied list when every name in it is one of the five names of the
\* Role enumeration, whatever the role store holds; a supplied list with any
\* other name fails the schema validation of create and nothing is stored.  A
\* user registered without roles who signs in is denied by
\* requirePermission(user:list) under the seeded matrix.
C18Theorem ==
  [][/\ (CreateReturns /\ EmailIsFree) =>
          IF NamesOfTheEnum
          THEN StoredAsSupplied
          ELSE /\ TheOutcome = RawError(MESSAGE_VALIDATION_FAILED)
               /\ UNCHANGED <<users, nextId, authentication>>
     /\ UserListDenied]_vars

\* a user registered without roles has signed in and been answered 403 on
\* GET /users under the seeded matrix, while another user holds the supplied
\* role admin
C18Witness ==
  /\ roleStore = SeededStore
  /\ req.phase = "done"
  /\ req.route = 2
  /\ req.ran = <<1, 2>>
  /\ IsDefined(req.user)
  /\ ValueOf(req.user).roles = <<"user">>
  /\ Len(req.responses) = 1
  /\ req.responses[1].status = HTTP_FORBIDDEN
  /\ ~req.handlerRan
  /\ \E id \in UserIds :
       IsDefined(users[id]) /\ ValueOf(users[id]).roles = <<"admin">>

Conflict == Failure(HTTP_BAD_REQUEST, MESSAGE_USER_ALREADY_EXISTS)
UniqueEmails ==
  \A id \in UserIds, other \in UserIds :
    (/\ IsDefined(users[id])
     /\ IsDefined(users[other])
     /\ Trimmed(Lowercased(ValueOf(users[id]).email))
          = Trimmed(Lowercased(ValueOf(users[other]).email))) => id = other
\* register returns for a well-formed email that a user already has
RegisterReturnsForTaken ==
  /\ Returns("register")
  /\ IsDefined(TheArg.email)
  /\ EmailRegexTest(ValueOf(TheArg.email))
  /\ ~EmailIsFree

\* C19: no two users share a normalized email, and a register for an email
\* that already belongs to a user fails with Conflict and creates nothing,
\* also when the user appeared between the existence check and the create.
C19Claim ==
  [][/\ UniqueEmails'
     /\ RegisterReturnsForTaken =>
          /\ TheOutcome = Conflict
          /\ UNCHANGED <<users, nextId, authentication>>]_vars

\* what the code does: the emails stay unique and nothing is created, but
\* the register that lost the race fails with the error of the create, the
\* duplicate-key error of the unique index (or the validation error of its
\* role list), which is no AppError
C19Observed ==
  [][/\ UniqueEmails'
     /\ RegisterReturnsForTaken =>
          /\ UNCHANGED <<users, nextId, authentication>>
          /\ IF CreateReturns
             THEN TheOutcome = IF NamesOfTheEnum
                               THEN RawError(MESSAGE_DUPLICATE_KEY)
                               ELSE RawError(MESSAGE_VALIDATION_FAILED)
             ELSE TheOutcome = Conflict]_vars

(***************************************************************************)
(* Deleting a role twice (SpecEngine).                                     *)
(***************************************************************************)
InactiveRoles ==
  {name \in RoleNameInputs :
     HasDoc(roleStore, name) /\ ~roleStore[DocIndex(roleStore, name)].isActive}

\* C20: once deleteRole(R) has succeeded, so that R is inactive, every
\* further deleteRole(R) fails with NotFound and leaves the store unchanged.
C20Claim ==
  \A name \in InactiveRoles :
    /\ RoleService_deleteRole(roleStore, name).error = MESSAGE_ROLE_NOT_FOUND
    /\ RoleService_deleteRole(roleStore, name).store = roleStore

\* what the code does: the filter of the update names the document only, so
\* the inactive document is matched again and the second delete succeeds
C20Observed ==
  \A name \in InactiveRoles :
    /\ RoleService_deleteRole(roleStore, name).error = NoError
    /\ RoleService_deleteRole(roleStore, name).store = roleStore

(***************************************************************************)
(* Changing the permissions of a role (SpecEngine).                        *)
(***************************************************************************)
\* names with no active role: unknown to the store, or soft-deleted
NamesWithoutActiveRole ==
  {name \in RoleNameInputs : ~IsDefined(FindByName(roleStore, name))}
UnknownNames == {name \in RoleNameInputs : ~HasDoc(roleStore, name)}
RefusedAsNotFound(outcome) ==
  outcome.error = MESSAGE_ROLE_NOT_FOUND /\ outcome.store = roleStore

\* C21: replace-, add- and remove-permissions on a name that does not exist
\* or whose role is inactive fail with NotFound and leave every role record
\* unchanged.
C21Claim ==
  \A name \in NamesWithoutActiveRole, permissions \in StorePermInputs :
    /\ RefusedAsNotFound(
         RoleService_updateRolePermissions(roleStore, name, permissions))
    /\ RefusedAsNotFound(
         RoleService_addPermissionsToRole(roleStore, name, permissions))
    /\ RefusedAsNotFound(
         RoleService_removePermissionsFromRole(roleStore, name, permissions))

\* what the code does: only a name with no document at all is refused; the
\* inactive document is matched by the name filter, the call succeeds and
\* the permissions of the inactive record are rewritten
C21Observed ==
  /\ \A name \in UnknownNames, permissions \in StorePermInputs :
       /\ RefusedAsNotFound(
            RoleService_updateRolePermissions(roleStore, name, permissions))
       /\ RefusedAsNotFound(
            RoleService_addPermissionsToRole(roleStore, name, permissions))
       /\ RefusedAsNotFound(
            RoleService_removePermissionsFromRole(roleStore, name, permissions))
  /\ \A name \in InactiveRoles, permissions \in StorePermInputs :
       LET i == DocIndex(roleStore, name)
           replaced == RoleService_updateRolePermissions(roleStore, name,
                                                         permissions)
           added == RoleService_addPermissionsToRole(roleStore, name,
                                                     permissions)
           removed == RoleService_removePermissionsFromRole(roleStore, name,
                                                            permissions)
       IN /\ replaced.error = NoError
          /\ replaced.store[i] = RoleDoc(name, permissions, FALSE)
          /\ added.error = NoError
          /\ Elems(added.store[i].permissions)
               = Elems(roleStore[i].permissions) \cup Elems(permissions)
          /\ removed.error = NoError
          /\ Elems(removed.store[i].permissions)
               = Elems(roleStore[i].permissions) \ Elems(permissions)

(***************************************************************************)
(* The algebra of the permission changes (SpecRoles).                      *)
(***************************************************************************)
ActiveRoles ==
  {name \in RoleNameInputs : IsDefined(FindByName(roleStore, name))}
StoredPermissions(store, name) == store[DocIndex(store, name)].permissions
\* the change touched the permissions of the named role and nothing else
OnlyPermissionsOf(name, outcome) ==
  /\ outcome.error = NoError
  /\ Len(outcome.store) = Len(roleStore)
  /\ \A i \in 1..Len(roleStore) :
       /\ outcome.store[i].name = roleStore[i].name
       /\ outcome.store[i].isActive = roleStore[i].isActive
       /\ roleStore[i].name # name => outcome.store[i] = roleStore[i]
AddsAsUnion(name, permissions) ==
  LET added == RoleService_addPermissionsToRole(roleStore, name, permissions)
  IN /\ OnlyPermissionsOf(name, added)
     /\ Elems(StoredPermissions(added.store, name))
          = Elems(StoredPermissions(roleStore, name)) \cup Elems(permissions)
     /\ RoleService_addPermissionsToRole(added.store, name, permissions)
          = added
RemovesAsDifference(name, permissions) ==
  LET removed == RoleService_removePermissionsFromRole(roleStore, name,
                                                       permissions)
  IN /\ OnlyPermissionsOf(name, removed)
     /\ Elems(StoredPermissions(removed.store, name))
          = Elems(StoredPermissions(roleStore, name)) \ Elems(permissions)
ReplacesExactly(name, permissions) ==
  LET replaced == RoleService_updateRolePermissions(roleStore, name,
                                                    permissions)
  IN /\ OnlyPermissionsOf(name, replaced)
     /\ StoredPermissions(replaced.store, name) = permissions
StoredOnceAfterAdd(name, permissions) ==
  NoDuplicates(StoredPermissions(
    RoleService_addPermissionsToRole(roleStore, name, permissions).store,
    name))

\* C22: on an existing role with permissions S, add-permissions(P) leaves
\* S union P with no permission stored twice and is idempotent,
\* remove-permissions(P) leaves S minus P, replace-permissions(P) leaves
\* exactly P, and none of them changes the name or active flag of the role,
\* or any other role.
C22Claim ==
  \A name \in ActiveRoles, permissions \in RoleListInputs :
    /\ AddsAsUnion(name, permissions)
    /\ StoredOnceAfterAdd(name, permissions)
    /\ RemovesAsDifference(name, permissions)
    /\ ReplacesExactly(name, permissions)

\* what the code does: the three relations hold, but the stored list is a
\* list; create and replace store the list as sent, repeats included, and
\* $addToSet only refrains from adding what is there, so a permission stored
\* twice stays stored twice after add
C22Observed ==
  \A name \in ActiveRoles, permissions \in RoleListInputs :
    /\ AddsAsUnion(name, permissions)
    /\ StoredOnceAfterAdd(name, permissions)
         <=> NoDuplicates(StoredPermissions(roleStore, name))
    /\ RemovesAsDifference(name, permissions)
    /\ ReplacesExactly(name, permissions)

(***************************************************************************)
(* The seeded matrix (SpecRoles).                                          *)
(***************************************************************************)
SeedReturns == Returns("seedRoles")
RoleNamesOf(store) == {store[i].name : i \in 1..Len(store)}
OneRecordPerName(store) ==
  \A i, j \in 1..Len(store) : store[i].name = store[j].name => i = j
SeededPermissions(name) == Elems(StoredPermissions(roleStore', name))
UserManagement ==
  {"user:create", "user:read", "user:update", "user:delete", "user:list"}
LowerRolesAsStated ==
  /\ SeededPermissions("manager") =
       {"user:read", "user:update", "user:list", "self:read", "self:update"}
  /\ SeededPermissions("user") = {"self:read", "self:update"}
  /\ SeededPermissions("guest") = {"self:read"}
FiveRoles ==
  /\ RoleNamesOf(roleStore') = Role
  /\ OneRecordPerName(roleStore')

RefreshSecretSet == IsDefined(env.JWT_REFRESH_SECRET)
RefreshConfigurationError ==
  Failure(HTTP_INTERNAL_SERVER_ERROR, MESSAGE_JWT_REFRESH_SECRET_NOT_CONFIGURED)

\* C24: with a token supplied and the secret of its kind unset, the check
\* ends in the configuration failure, which is not the Unauthorized one,
\* whatever the token is, whether or not its user exists and whether or not
\* the database answers: isAuthenticated for JWT_SECRET, tokenRefresh for
\* JWT_REFRESH_SECRET.
C24Theorem ==
  [][/\ (/\ GuardStepOf({"isAuthenticated"})
         /\ IsDefined(PresentedToken)
         /\ ~SecretSet)
           => /\ ~CalledNext
              /\ SentError(400, MESSAGE_SERVER_CONFIG_ERROR)
              /\ Sent.status # HTTP_UNAUTHORIZED
              /\ ~req'.caught
              /\ req'.user = Undefined
              /\ req'.phase = "done"
     /\ (RefreshReturns /\ ~RefreshSecretSet)
           => /\ TheOutcome = RefreshConfigurationError
              /\ TheOutcome.status # HTTP_UNAUTHORIZED]_vars

\* a well-formed, unexpired token signed with the refresh secret of an
\* earlier configuration has been refused for want of the secret
C24Witness ==
  /\ Returned("tokenRefresh")
  /\ ~RefreshSecretSet
  /\ IsDefined(TheOp.arg)
  /\ ValueOf(TheOp.arg).wellFormed
  /\ ~ValueOf(TheOp.arg).expired
  /\ ValueOf(TheOp.arg).key = RefreshSecret
  /\ TheOp.outcome = RefreshConfigurationError

(***************************************************************************)
(* Responses of the auth routes (SpecController).                          *)
(***************************************************************************)
Handled == req.phase \in {"done", "unhandled"}
OnAuthRoute == req.route \in AuthRouteIds
ServiceFailed == OnAuthRoute /\ (req.phase = "unhandled" \/ req.caught)

\* C25: every request to an auth or a guarded route ends with exactly one
\* response: a failure raised by authenticate, register, signOut or
\* tokenRefresh becomes an error response and never leaves the request
\* without one.
C25Claim == Handled => req.phase = "done" /\ Len(req.responses) = 1

\* what the code does: a request never gets two responses; a guarded route,
\* a successful service call and a refusal made by the controller itself are
\* answered once; a failure thrown by a service is answered only when the
\* router forwards the rejected promise, and by nobody otherwise
C25Observed ==
  /\ Len(req.responses) <= 1
  /\ (Handled /\ ~OnAuthRoute) => Len(req.responses) = 1
  /\ req.phase = "done" => Len(req.responses) = 1
  /\ req.phase = "unhandled" => OnAuthRoute /\ req.responses = <<>>

(***************************************************************************)
(* Order of the authorization guards (SpecGate).                           *)
(***************************************************************************)
\* the authenticate guard has just attached the user
Attached == req.phase = "inflight" /\ req.step = 2 /\ IsDefined(req.user)

\* the guards the routes place after authenticate that read no path
\* parameter
RoleAndPermissionGuards ==
  UNION {{Routes[i].chain[j] : j \in 2..Len(Routes[i].chain)} :
           i \in RouteIds} \cap
  {Guard(kind, one, many) :
     kind \in AuthorizationGuards \ OwnershipGuards,
     one \in {"", "user:list", "user:delete", "role:create", "admin"},
     many \in {<<>>, <<"super_admin", "admin">>, <<"super_admin">>,
               <<"user:read", "user:list">>, <<"user:create", "role:assign">>}}

\* the chain of the route after authenticate, and every pair of guards
AuthorizationChains ==
  {SubSeq(Chain(req), 2, Len(Chain(req)))}
    \cup {<<g, h>> : g, h \in RoleAndPermissionGuards}

Permuted(chain, p) == [i \in 1..Len(chain) |-> chain[p[i]]]
PassesOnItsOwn(g, dbOk) == RunGuard(g, req, users, roleStore, env, dbOk).next
Reaches(chain, dbOk) ==
  ReachesHandler(chain, req, users, roleStore, env, dbOk)

\* C26: with the user attached and the role store as it is, a chain of
\* authorization guards reaches the handler exactly when each of its guards
\* passes on its own, in whatever order the guards are placed.
C26Theorem ==
  Attached =>
    \A chain \in AuthorizationChains, dbOk \in BOOLEAN :
      \A p \in Permutations(1..Len(chain)) :
        Reaches(Permuted(chain, p), dbOk)
          = (\A i \in 1..Len(chain) : PassesOnItsOwn(chain[i], dbOk))

\* DELETE /users/:id with both of its guards passing, and a pair of guards
\* of which only the first one passes
C26Witness ==
  /\ Attached
  /\ Routes[req.route].name = "DELETE /users/:id"
  /\ Reaches(SubSeq(Chain(req), 2, Len(Chain(req))), TRUE)
  /\ \E g, h \in RoleAndPermissionGuards :
       PassesOnItsOwn(g, TRUE) /\ ~PassesOnItsOwn(h, TRUE)

(***************************************************************************)
(* Sign-out racing a sign-in of the same user (SpecSession).               *)
(***************************************************************************)
SignOutSucceeds == SignOutReturns /\ TheOutcome.ok
StoredOtherThan(id, token) ==
  /\ IsDefined(authentication[id])
  /\ IsDefined(StoredToken(id))
  /\ StoredToken(id) # Some(TokenString(token))

\* C27: signOut(t) never clears a stored refresh token other than t: a token
\* that a sign-in of the same user has stored in the meantime is still
\* stored, and still accepted by tokenRefresh, when signOut(t) has completed.
C27Claim ==
  [][SignOutSucceeds =>
       \A id \in UserIds :
         StoredOtherThan(id, ValueOf(TheArg)) =>
           /\ authentication'[id] = authentication[id]
           /\ RefreshAfter(ValueOf(StoredToken(id)), FALSE).ok]_vars

\* what the code does: the save of signOut clears the token of the user its
\* lookup found, whichever token that user holds by then, and touches no
\* other user
C27Observed ==
  [][SignOutSucceeds =>
       LET id == ValueOf(TheOutcome.userId)
       IN /\ ValueOf(authentication'[id]).token = Undefined
          /\ \A other \in UserIds \ {id} :
               authentication'[other] = authentication[other]]_vars

(***************************************************************************)
(* Stored tokens and their subjects (SpecAccount).                         *)
(***************************************************************************)
Forbidden == Failure(HTTP_FORBIDDEN, MESSAGE_FORBIDDEN)
HoldsToken(id) == IsDefined(authentication[id]) /\ IsDefined(StoredToken(id))
DeletedIds == {id \in 1..nextId : users[id] = Undefined}

\* C28: a refresh token stored on a user record was issued by
\* generateRefreshToken for the id of that very user, so tokenRefresh never
\* ends in Forbidden, whatever token it is given, through register,
\* authenticate, signOut, tokenRefresh and deleteUser in any order.
C28Theorem ==
  /\ \A id \in UserIds :
       HoldsToken(id) =>
         /\ ValueOf(StoredToken(id)).wellFormed
         /\ ValueOf(StoredToken(id)).id = id
         /\ IssuedRefresh(ValueOf(StoredToken(id)))
  /\ \A token \in SessionTokenInputs :
       AuthService_tokenRefresh(authentication, env, token, clock) # Forbidden
  /\ Returned("tokenRefresh") => TheOp.outcome # Forbidden

\* a user has been deleted, another one still holds its token, and a
\* tokenRefresh with the token of the deleted user has returned
C28Witness ==
  /\ Returned("tokenRefresh")
  /\ IsDefined(TheOp.arg)
  /\ ValueOf(TheOp.arg).wellFormed
  /\ ValueOf(TheOp.arg).id \in DeletedIds
  /\ IssuedRefresh(ValueOf(TheOp.arg))
  /\ \E id \in RegisteredIds : HoldsToken(id)

(***************************************************************************)
(* Soft-deleted roles stay deleted (SpecRoles).                            *)
(***************************************************************************)
SoftDeleted(store) ==
  {store[i].name : i \in {j \in 1..Len(store) : ~store[j].isActive}}

\* C29: a role that is inactive stays inactive through createRole with its
\* name, replace-, add- and remove-permissions, deleteRole and a run of the
\* seeder, and so stays out of findByName, findByNames and the permissions
\* resolved for a user who carries it.
C29Theorem ==
  [][\A name \in SoftDeleted(roleStore) :
       /\ name \in SoftDeleted(roleStore')
       /\ OneRecordPerName(roleStore')
       /\ FindByName(roleStore', name) = Undefined
       /\ FindByNames(roleStore', <<name>>) = <<>>
       /\ GetPermissionsForRoles(roleStore', <<name>>) = <<>>]_vars

\* the seeder has run over a store that holds a soft-deleted role of its
\* own list, whose permissions it rewrote
C29Witness ==
  /\ Returned("seedRoles")
  /\ "admin" \in SoftDeleted(roleStore)
  /\ StoredPermissions(roleStore, "admin") = RolePermissions("admin")

(***************************************************************************)
(* Access tokens after sign-out and after deletion (SpecAccount).          *)
(***************************************************************************)
\* an unexpired access token handed out by a sign-in is presented
PresentsIssuedAccess ==
  /\ GuardStepOf({"isAuthenticated"})
  /\ IsDefined(PresentedToken)
  /\ IssuedAccess(ValueOf(PresentedToken))
  /\ ~ValueOf(PresentedToken).expired
\* the user holds no refresh token and no call of theirs is under way
SignedOut(id) ==
  /\ IsDefined(authentication[id])
  /\ StoredToken(id) = Undefined
  /\ \A c \in Callers : pending[c] = Undefined

====
